---- MODULE Spec2Model ----
(***************************************************************************)
(* Job orchestration and event broadcast of the Ralph dashboard server     *)
(* (src/server.js): the in-memory job table activeJobs, the job id         *)
(* counter, the child processes spawned for the jobs, the HTTP handlers    *)
(* that start and stop jobs and the process callbacks that update them.    *)
(*                                                                         *)
(* Node runs every handler and every callback to completion on one thread, *)
(* so each of them is one atomic action.                                   *)
(*                                                                         *)
(* Money is counted in units of 10^-5 dollar, so that 0.15 and 0.00255 are *)
(* the integers 15000 and 255.                                             *)
(*                                                                         *)
(* The execution loop script (src/scripts/ralph.sh) is modelled on its     *)
(* own, as the shell runs it, in the record `script`.                      *)
(***************************************************************************)
EXTENDS Integers, Sequences, FiniteSets, TLC

VARIABLES
    activeJobs,     \* the Map jobId -> job (server.js:162)
    jobIdCounter,   \* the next job id (server.js:163)
    procs,          \* the child process behind each job's handle
    events,         \* every message handed to broadcast(), in order
    observers,      \* the WebSocket clients: readyState, messages sent to it
    response,       \* the HTTP response of the latest request
    node,           \* the server process: "up", or "exited"
    script,         \* a run of scripts/ralph.sh, as the shell executes it
    github,         \* GitHub App settings, token cache, requests in flight
    db,             \* the job/repo store: its handle and its tables
    returned        \* what the latest call of a store or auth function gave

vars == <<activeJobs, jobIdCounter, procs, events, observers, response,
          node, script, github, db, returned>>

----------------------------------------------------------------------------
(* Bounds of the model *)

MaxJobs == 2        \* start requests accepted
MaxEvents == 4      \* messages broadcast before the model stops broadcasting
MaxIter == 2        \* largest iteration number a marker carries
MaxSegments == 2    \* pieces of text an output stream is made of
MaxClients == 2     \* WebSocket connections accepted
MaxWatched == 3     \* messages broadcast before the watched jobs fall silent
MaxStories == 2     \* user stories in a prd.json
MaxPriority == 2    \* largest priority number of a story
MaxArg == 2         \* largest max_iterations argument given to ralph.sh

(* Program constants *)

ManagerCost == 15000    \* cost: 0.15 (server.js:440)
IterationCost == 255    \* job.iterations * 0.00255 (server.js:518)
DefaultMaxIterations == 10  \* "${1:-10}" (ralph.sh:13)

----------------------------------------------------------------------------
(* Inputs *)

\* Workspaces a request can name: one that does not exist, one without a
\* prd.json, one with a prd.json.  NoRepo is a request body without repo.
NoRepo == ""
Repos == {"ghost", "bare", "proj"}
RepoArgs == Repos \cup {NoRepo}
RequestArgs == {"", "add a feature"}

\* The path of a repository's prd.json (server.js:483).
prdPath(repo) == <<repo, "prd.json">>
repoPath(repo) == <<repo>>

\* Ids a stop request can carry: known ones, unknown ones, and 0.
StopIds == 0 .. (MaxJobs + 1)

\* Output text is a sequence of tokens.  The two halves of the literal
\* "Loop Iteration " are tokens of their own, so that a chunk boundary can
\* fall inside the marker; a digit is a token; "x" is any other text.
Digit == {"0", "1", "2", "3", "4", "5", "6", "7", "8", "9"}
DigitVal(d) ==
    CASE d = "0" -> 0 [] d = "1" -> 1 [] d = "2" -> 2 [] d = "3" -> 3
      [] d = "4" -> 4 [] d = "5" -> 5 [] d = "6" -> 6 [] d = "7" -> 7
      [] d = "8" -> 8 [] d = "9" -> 9
DigitOf(n) ==
    CASE n = 0 -> "0" [] n = 1 -> "1" [] n = 2 -> "2" [] n = 3 -> "3"
      [] n = 4 -> "4" [] n = 5 -> "5" [] n = 6 -> "6" [] n = 7 -> "7"
      [] n = 8 -> "8" [] n = 9 -> "9"

\* The text "Loop Iteration n" that the pattern of server.js:515 looks for
\* (n < 10).
IterationMarker(n) == <<"Loop Iter", "ation ", DigitOf(n)>>

StdoutChunks == {<<"x">>} \cup {IterationMarker(n) : n \in 1 .. MaxIter}
StderrChunks == {<<"x">>}

\* What the 'close' event carries: <<c>> for exit code c, << >> for null
\* (the process was ended by a signal).
CloseCodes == {<<0>>, <<1>>, << >>}

----------------------------------------------------------------------------
(* The output classifier: text.match(/Loop Iteration (\d+)/) and parseInt *)

\* Does the marker start at position i of text?
MarkerAt(text, i) ==
    /\ i + 2 <= Len(text)
    /\ text[i] = "Loop Iter"
    /\ text[i + 1] = "ation "
    /\ text[i + 2] \in Digit

\* The end of the run of digits that starts at position i (\d+ is greedy).
RECURSIVE DigitsEnd(_, _)
DigitsEnd(text, i) ==
    IF i + 1 <= Len(text) /\ text[i + 1] \in Digit
    THEN DigitsEnd(text, i + 1)
    ELSE i

\* parseInt of a run of digits.
parseInt_len(ds) == Len(ds)
RECURSIVE parseInt(_)
parseInt(ds) ==
    IF ds = << >> THEN 0
    ELSE 10 * parseInt(SubSeq(ds, 1, Len(ds) - 1)) + DigitVal(ds[Len(ds)])

\* text.match(...): << >> for null, else <<captured digits>> of the
\* leftmost match.
iterMatch_always(text) == <<<<"0">>>>
iterMatch(text) ==
    LET starts == {i \in 1 .. Len(text) : MarkerAt(text, i)}
    IN  IF starts = {} THEN << >>
        ELSE LET i == CHOOSE s \in starts : \A t \in starts : s <= t
             IN  <<SubSeq(text, i + 2, DigitsEnd(text, i + 2))>>

----------------------------------------------------------------------------
(* Helpers *)

\* The workspaces under REPOS_DIR: "ghost" does not exist, "bare" is a
\* directory without a prd.json, "proj" is a directory with one.
fs == {repoPath("bare"), repoPath("proj"), prdPath("proj")}
existsSync_any(path) == TRUE
existsSync_prd(path) == path \in fs \/ path[Len(path)] = "prd.json"
existsSync(path) == path \in fs

\* Map.set(jobId, job)
MapSet(map, jobId, job) ==
    [k \in DOMAIN map \cup {jobId} |-> IF k = jobId THEN job ELSE map[k]]

\* jobIdCounter++ leaves the counter one larger (server.js:433, 488).
postIncrement_stuck(n) == n
postIncrement(n) == n + 1

\* broadcast(data): every message is recorded in the order it was handed over.
broadcast_front(log, data) == <<data>> \o log
broadcast(log, data) == Append(log, data)

\* The messages a step handed to broadcast().
NewEvents == SubSeq(events', Len(events) + 1, Len(events'))

\* readyState of a WebSocket (ws): broadcast() sends to state 1 only.
OPEN == 1
CLOSING == 2

\* wss.clients.forEach(client => { if (client.readyState === 1)
\* client.send(...) }), for each of the messages in turn: send() queues the
\* message on the client's socket and returns.
fanout_last(clients, messages) ==
    [c \in DOMAIN clients |->
        IF clients[c].readyState = OPEN /\ messages # << >>
        THEN [clients[c] EXCEPT !.inbox = Append(@, messages[Len(messages)])]
        ELSE clients[c]]
fanout_abort(clients, messages) ==
    IF \E c \in DOMAIN clients : clients[c].readyState # OPEN
    THEN clients
    ELSE [c \in DOMAIN clients |->
             [clients[c] EXCEPT !.inbox = @ \o messages]]
fanout(clients, messages) ==
    [c \in DOMAIN clients |->
        IF clients[c].readyState = OPEN
        THEN [clients[c] EXCEPT !.inbox = @ \o messages]
        ELSE clients[c]]

\* Every message the step handed to broadcast() went through the loop above.
Fanout == observers' = fanout(observers, NewEvents)

\* { ...job, process: undefined }
JobView(job) ==
    [repo |-> job.repo, type |-> job.type, status |-> job.status,
     iterations |-> job.iterations, cost |-> job.cost]

\* job.cost = job.iterations * 0.00255
costOf_flat(iterations) == IterationCost
costOf(iterations) == iterations * IterationCost

jobSummaries_started(map, n) ==
    [id \in DOMAIN map |->
        [id |-> id, repo |-> map[id].repo, type |-> map[id].type,
         status |-> "running", iterations |-> 0,
         cost |-> IF map[id].type = "manager" THEN ManagerCost ELSE 0]]
\* The job summaries of GET /api/jobs and of the init message, in the order
\* of the Map (insertion order, which is the order of the ids).
RECURSIVE jobSummaries(_, _)
jobSummaries(map, n) ==
    IF n = 0 THEN << >>
    ELSE LET rest == jobSummaries(map, n - 1)
         IN  IF n \in DOMAIN map
             THEN Append(rest, [id |-> n, repo |-> map[n].repo,
                                type |-> map[n].type,
                                status |-> map[n].status,
                                iterations |-> map[n].iterations,
                                cost |-> map[n].cost])
             ELSE rest

\* code === 0 ? 'completed' : 'failed'
ExitStatus_again(code) == IF code = <<0>> THEN "completed" ELSE "running"
ExitStatus_done(code) == "completed"
ExitStatus(code) == IF code = <<0>> THEN "completed" ELSE "failed"

\* The model stops broadcasting when the event log is full.
Room == Len(events) < MaxEvents

\* scripts/ralph.sh before anyone runs it.
NotStarted ==
    [pc |-> "idle", args |-> << >>, MAX_ITERATIONS |-> "", ITERATION |-> 0,
     TOOL |-> "", userStories |-> << >>, CURRENT_STORY |-> 0, RESULT |-> {},
     stdout |-> << >>, status |-> -1, env |-> {}]

\* null and undefined.
Null == "null"

\* The cache without a token (server.js:23-26, 863); -1 is the null expiry.
NoExpiry == -1
EmptyCache == [token |-> Null, expiresAt |-> NoExpiry]

\* githubAppConfig and installationTokenCache of a server started without
\* GitHub settings in its environment (server.js:16-26), at time 0.
Unconfigured ==
    [config |-> [appId |-> "", privateKeyPath |-> "", installationId |-> ""],
     cache |-> EmptyCache,
     GITHUB_TOKEN |-> Null, keys |-> {}, now |-> 0, issued |-> 0,
     requests |-> << >>]

\* `let db;` before init() (part_001:5), and the database file before its
\* tables are created.
Unopened == [db |-> Null, jobs |-> {}, seq |-> 0, repos |-> {}]

\* No function of the store or of the credential code has been called.
NoCall == [fn |-> "none"]

----------------------------------------------------------------------------
(* Initial state: a freshly started server *)

Init ==
    /\ activeJobs = << >>
    /\ jobIdCounter = 1
    /\ procs = << >>
    /\ events = << >>
    /\ observers = << >>
    /\ response = [op |-> "none", status |-> 0, body |-> << >>]
    /\ node = "up"
    /\ script = NotStarted
    /\ github = Unconfigured
    /\ db = Unopened
    /\ returned = NoCall

----------------------------------------------------------------------------
(* POST /api/manager: start the planning job *)

\* The job record the handler builds, with the handle of the spawned process
\* it stores before it returns (server.js:434-442, 453).
ManagerJob_free(repo, jobId) ==
    [repo |-> repo, type |-> "manager", status |-> "running",
     iterations |-> 0, cost |-> 0, process |-> jobId]
ManagerJob(repo, jobId) ==
    [repo |-> repo, type |-> "manager", status |-> "running",
     iterations |-> 0, cost |-> ManagerCost, process |-> jobId]

\* spawn(): a running child process on which kill() was never called.
spawn == [closed |-> FALSE, kills |-> 0]

PostApiManager(repo, request) ==
    /\ IF repo = NoRepo \/ request = ""
       THEN /\ response' = [op |-> "manager", status |-> 400,
                            body |-> <<"error", "repo and request required">>]
            /\ UNCHANGED <<activeJobs, jobIdCounter, procs, events>>
       ELSE IF ~existsSync(repoPath(repo))
       THEN /\ response' = [op |-> "manager", status |-> 404,
                            body |-> <<"error", "Repository not found">>]
            /\ UNCHANGED <<activeJobs, jobIdCounter, procs, events>>
       ELSE LET jobId == jobIdCounter
                job == ManagerJob(repo, jobId)
            IN  /\ jobIdCounter <= MaxJobs
                /\ Room
                /\ jobIdCounter' = postIncrement(jobIdCounter)
                /\ activeJobs' = MapSet(activeJobs, jobId, job)
                /\ events' = broadcast(events, [type |-> "job_started",
                                                jobId |-> jobId,
                                                job |-> JobView(job)])
                /\ procs' = MapSet(procs, jobId, spawn)
                /\ response' = [op |-> "manager", status |-> 200,
                                body |-> <<"jobId", jobId>>]
    /\ Fanout
    /\ UNCHANGED <<node, script, github, db, returned>>

----------------------------------------------------------------------------
(* POST /api/ralph: start the execution loop job *)

RalphJob(repo, jobId) ==
    [repo |-> repo, type |-> "ralph", status |-> "running",
     iterations |-> 0, cost |-> 0, process |-> jobId]

\* A start handler that answers 409 while the workspace has a running job.
PostApiRalph_exclusive(repo) ==
    /\ IF repo = NoRepo
       THEN /\ response' = [op |-> "ralph", status |-> 400,
                            body |-> <<"error", "repo required">>]
            /\ UNCHANGED <<activeJobs, jobIdCounter, procs, events>>
       ELSE IF ~existsSync(repoPath(repo))
       THEN /\ response' = [op |-> "ralph", status |-> 404,
                            body |-> <<"error", "Repository not found">>]
            /\ UNCHANGED <<activeJobs, jobIdCounter, procs, events>>
       ELSE IF ~existsSync(prdPath(repo))
       THEN /\ response' = [op |-> "ralph", status |-> 400,
                            body |-> <<"error", "No prd.json found">>]
            /\ UNCHANGED <<activeJobs, jobIdCounter, procs, events>>
       ELSE IF \E k \in DOMAIN activeJobs :
                  /\ activeJobs[k].repo = repo
                  /\ activeJobs[k].status = "running"
       THEN /\ response' = [op |-> "ralph", status |-> 409,
                            body |-> <<"error", "Repository is busy">>]
            /\ UNCHANGED <<activeJobs, jobIdCounter, procs, events>>
       ELSE LET jobId == jobIdCounter
                job == RalphJob(repo, jobId)
            IN  /\ jobIdCounter <= MaxJobs
                /\ Room
                /\ jobIdCounter' = postIncrement(jobIdCounter)
                /\ activeJobs' = MapSet(activeJobs, jobId, job)
                /\ events' = broadcast(events, [type |-> "job_started",
                                                jobId |-> jobId,
                                                job |-> JobView(job)])
                /\ procs' = MapSet(procs, jobId, spawn)
                /\ response' = [op |-> "ralph", status |-> 200,
                                body |-> <<"jobId", jobId>>]
    /\ Fanout
    /\ UNCHANGED <<node, script, github, db, returned>>

PostApiRalph(repo) ==
    /\ IF repo = NoRepo
       THEN /\ response' = [op |-> "ralph", status |-> 400,
                            body |-> <<"error", "repo required">>]
            /\ UNCHANGED <<activeJobs, jobIdCounter, procs, events>>
       ELSE IF ~existsSync(repoPath(repo))
       THEN /\ response' = [op |-> "ralph", status |-> 404,
                            body |-> <<"error", "Repository not found">>]
            /\ UNCHANGED <<activeJobs, jobIdCounter, procs, events>>
       ELSE IF ~existsSync(prdPath(repo))
       THEN /\ response' = [op |-> "ralph", status |-> 400,
                            body |-> <<"error", "No prd.json found">>]
            /\ UNCHANGED <<activeJobs, jobIdCounter, procs, events>>
       ELSE LET jobId == jobIdCounter
                job == RalphJob(repo, jobId)
            IN  /\ jobIdCounter <= MaxJobs
                /\ Room
                /\ jobIdCounter' = postIncrement(jobIdCounter)
                /\ activeJobs' = MapSet(activeJobs, jobId, job)
                /\ events' = broadcast(events, [type |-> "job_started",
                                                jobId |-> jobId,
                                                job |-> JobView(job)])
                /\ procs' = MapSet(procs, jobId, spawn)
                /\ response' = [op |-> "ralph", status |-> 200,
                                body |-> <<"jobId", jobId>>]
    /\ Fanout
    /\ UNCHANGED <<node, script, github, db, returned>>

----------------------------------------------------------------------------
(* Callbacks of a job's child process.  Output can arrive and 'close' can  *)
(* fire as long as 'close' has not fired, whether or not kill() was called *)
(* (the process may ignore or outlive the signal, and output it wrote      *)
(* before dying is still in the pipe).  'close' fires once.                *)

ProcOpen(jobId) == jobId \in DOMAIN procs /\ ~procs[jobId].closed

\* proc.stdout.on('data') and proc.stderr.on('data') of the manager job
ManagerData_classified(jobId, text) ==
    /\ ProcOpen(jobId)
    /\ activeJobs[jobId].type = "manager"
    /\ Room
    /\ LET logged == broadcast(events, [type |-> "log", jobId |-> jobId,
                                        data |-> text])
           m == iterMatch(text)
       IN  IF m # << >>
           THEN /\ activeJobs' = [activeJobs EXCEPT
                                    ![jobId].iterations = parseInt(m[1]),
                                    ![jobId].cost = costOf(parseInt(m[1]))]
                /\ events' = logged
           ELSE /\ events' = logged
                /\ UNCHANGED activeJobs
    /\ UNCHANGED <<jobIdCounter, procs, response>>
    /\ Fanout
    /\ UNCHANGED <<node, script, github, db, returned>>
ManagerData(jobId, text) ==
    /\ ProcOpen(jobId)
    /\ activeJobs[jobId].type = "manager"
    /\ Room
    /\ events' = broadcast(events, [type |-> "log", jobId |-> jobId,
                                    data |-> text])
    /\ UNCHANGED <<activeJobs, jobIdCounter, procs, response>>
    /\ Fanout
    /\ UNCHANGED <<node, script, github, db, returned>>

\* proc.on('close') of the manager job
ManagerClose(jobId, code) ==
    /\ ProcOpen(jobId)
    /\ activeJobs[jobId].type = "manager"
    /\ Room
    /\ LET status == ExitStatus(code)
       IN  /\ activeJobs' = [activeJobs EXCEPT ![jobId].status = status]
           /\ events' = broadcast(events, [type |-> "job_completed",
                                           jobId |-> jobId,
                                           status |-> status])
    /\ procs' = [procs EXCEPT ![jobId].closed = TRUE]
    /\ UNCHANGED <<jobIdCounter, response>>
    /\ Fanout
    /\ UNCHANGED <<node, script, github, db, returned>>

\* The body of proc.stdout.on('data') of the ralph job
onStdoutData(jobId, text) ==
    /\ LET logged == broadcast(events, [type |-> "log", jobId |-> jobId,
                                        data |-> text])
           m == iterMatch(text)
       IN  IF m # << >>
           THEN LET iterations == parseInt(m[1])
                    cost == costOf(iterations)
                IN  /\ activeJobs' = [activeJobs EXCEPT
                                        ![jobId].iterations = iterations,
                                        ![jobId].cost = cost]
                    /\ events' = broadcast(logged,
                                           [type |-> "job_update",
                                            jobId |-> jobId,
                                            iterations |-> iterations,
                                            cost |-> cost])
           ELSE /\ events' = logged
                /\ UNCHANGED activeJobs
    /\ UNCHANGED <<jobIdCounter, procs, response>>
    /\ Fanout
    /\ UNCHANGED <<node, script, github, db, returned>>

\* proc.stdout.on('data') of the ralph job
RalphStdoutData(jobId, text) ==
    /\ ProcOpen(jobId)
    /\ activeJobs[jobId].type = "ralph"
    /\ Room
    /\ onStdoutData(jobId, text)

\* proc.stderr.on('data') of the ralph job
RalphStderrData(jobId, text) ==
    /\ ProcOpen(jobId)
    /\ activeJobs[jobId].type = "ralph"
    /\ Room
    /\ events' = broadcast(events, [type |-> "log", jobId |-> jobId,
                                    data |-> text])
    /\ UNCHANGED <<activeJobs, jobIdCounter, procs, response>>
    /\ Fanout
    /\ UNCHANGED <<node, script, github, db, returned>>

\* proc.on('close') of the ralph job
RalphClose(jobId, code) ==
    /\ ProcOpen(jobId)
    /\ activeJobs[jobId].type = "ralph"
    /\ Room
    /\ LET status == ExitStatus(code)
       IN  /\ activeJobs' = [activeJobs EXCEPT ![jobId].status = status]
           /\ events' = broadcast(events, [type |-> "job_completed",
                                           jobId |-> jobId,
                                           status |-> status,
                                           cost |-> activeJobs[jobId].cost])
    /\ procs' = [procs EXCEPT ![jobId].closed = TRUE]
    /\ UNCHANGED <<jobIdCounter, response>>
    /\ Fanout
    /\ UNCHANGED <<node, script, github, db, returned>>

----------------------------------------------------------------------------
(* POST /api/jobs/:id/stop *)

\* job.process.kill('SIGTERM'): one more call of kill() on the handle.  The
\* call returns at once; the process ends, if it does, later.
kill_lost(proc) == proc
kill(proc) == [proc EXCEPT !.kills = @ + 1]

\* if (!job) return res.status(404)...
StopUnknown_ok(jobId) ==
    /\ Room
    /\ events' = broadcast(events, [type |-> "job_completed",
                                    jobId |-> jobId, status |-> "stopped"])
    /\ response' = [op |-> "stop", status |-> 200, body |-> <<"success", TRUE>>]
    /\ UNCHANGED <<activeJobs, jobIdCounter, procs>>
StopUnknown(jobId) ==
    /\ response' = [op |-> "stop", status |-> 404,
                    body |-> <<"error", "Job not found">>]
    /\ UNCHANGED <<activeJobs, jobIdCounter, procs, events>>

\* The rest of the handler.  job.process is the handle the start handler
\* stored: nothing ever resets it, so `if (job.process)` holds for every job
\* of the table, whatever its status.
StopKnown_announce(jobId) ==
    LET job == activeJobs[jobId]
    IN  /\ Room
        /\ procs' = [procs EXCEPT ![job.process] = kill(procs[job.process])]
        /\ activeJobs' = [activeJobs EXCEPT
                            ![jobId].status = IF job.status = "running"
                                              THEN "stopped" ELSE @]
        /\ events' = broadcast(events, [type |-> "job_completed",
                                        jobId |-> jobId,
                                        status |-> "stopped"])
        /\ response' = [op |-> "stop", status |-> 200,
                        body |-> <<"success", TRUE>>]
        /\ UNCHANGED jobIdCounter
StopKnown(jobId) ==
    LET job == activeJobs[jobId]
    IN  /\ Room
        /\ IF job.process \in DOMAIN procs
           THEN /\ procs' = [procs EXCEPT
                               ![job.process] = kill(procs[job.process])]
                /\ activeJobs' = [activeJobs EXCEPT
                                    ![jobId].status = "stopped"]
                /\ events' = broadcast(events, [type |-> "job_completed",
                                                jobId |-> jobId,
                                                status |-> "stopped"])
           ELSE UNCHANGED <<activeJobs, procs, events>>
        /\ response' = [op |-> "stop", status |-> 200,
                        body |-> <<"success", TRUE>>]
        /\ UNCHANGED jobIdCounter

PostApiJobsStop(jobId) ==
    /\ IF jobId \notin DOMAIN activeJobs
       THEN StopUnknown(jobId)
       ELSE StopKnown(jobId)
    /\ Fanout
    /\ UNCHANGED <<node, script, github, db, returned>>

----------------------------------------------------------------------------

Next ==
    \/ \E repo \in RepoArgs, request \in RequestArgs :
          PostApiManager(repo, request)
    \/ \E repo \in RepoArgs : PostApiRalph(repo)
    \/ \E jobId \in StopIds : PostApiJobsStop(jobId)
    \/ \E jobId \in 1 .. MaxJobs, text \in StdoutChunks \cup StderrChunks :
          ManagerData(jobId, text)
    \/ \E jobId \in 1 .. MaxJobs, code \in CloseCodes :
          ManagerClose(jobId, code)
    \/ \E jobId \in 1 .. MaxJobs, text \in StdoutChunks :
          RalphStdoutData(jobId, text)
    \/ \E jobId \in 1 .. MaxJobs, text \in StderrChunks :
          RalphStderrData(jobId, text)
    \/ \E jobId \in 1 .. MaxJobs, code \in CloseCodes :
          RalphClose(jobId, code)

Spec == Init /\ [][Next]_vars

----------------------------------------------------------------------------
(* Vocabulary of the properties *)

Terminal == {"completed", "failed", "stopped"}
Jobs == DOMAIN activeJobs

StoppedEvent(jobId) ==
    [type |-> "job_completed", jobId |-> jobId, status |-> "stopped"]

\* Positions of the job_started messages in the event log.
StartedAt == {i \in 1 .. Len(events) : events[i].type = "job_started"}

NoSuchRepo(repo) == repo # NoRepo /\ repoPath(repo) \notin fs
NoTaskList(repo) ==
    repo # NoRepo /\ repoPath(repo) \in fs /\ prdPath(repo) \notin fs

----------------------------------------------------------------------------
(* Stop against the exit callback *)

\* C1: when a job is Stopped and its process then closes, with whatever
\* exit code, the job's status stays Stopped.
C1_StoppedSurvivesExit ==
    [][\A j \in Jobs :
          (/\ activeJobs[j].status = "stopped"
           /\ ~procs[j].closed
           /\ procs'[j].closed)
          => activeJobs'[j].status = "stopped"]_vars

\* C2: once a job's status is terminal, no step changes it to another value.
C2_TerminalIsFinal ==
    [][\A j \in Jobs :
          activeJobs[j].status \in Terminal
          => activeJobs'[j].status = activeJobs[j].status]_vars

\* C3: Stop on a job whose status is terminal returns success and changes
\* no job, calls kill() on no process and broadcasts nothing.
C3_StopOnTerminalIsNoOp ==
    [][\A j \in StopIds :
          (/\ PostApiJobsStop(j)
           /\ j \in Jobs
           /\ activeJobs[j].status \in Terminal)
          => /\ response'.status = 200
             /\ UNCHANGED <<activeJobs, procs, events>>]_vars

\* C4: once an execution-loop job is Stopped, no step changes its iteration
\* count or its cost, and no step broadcasts a job_update for it.
C4_NoUpdateAfterStop ==
    [][\A j \in Jobs :
          (activeJobs[j].type = "ralph" /\ activeJobs[j].status = "stopped")
          => /\ activeJobs'[j].iterations = activeJobs[j].iterations
             /\ activeJobs'[j].cost = activeJobs[j].cost
             /\ \A i \in 1 .. Len(NewEvents) :
                   ~(NewEvents[i].type = "job_update"
                     /\ NewEvents[i].jobId = j)]_vars

\* C5: Stop on a Running job calls kill() once on the job's process, sets
\* the status to Stopped in the same step, broadcasts exactly job_completed
\* with status stopped, and answers success while the process has not closed.
C5_StopRunning ==
    [][\A j \in StopIds :
          (/\ PostApiJobsStop(j)
           /\ j \in Jobs
           /\ activeJobs[j].status = "running")
          => /\ procs'[j].kills = procs[j].kills + 1
             /\ ~procs'[j].closed
             /\ activeJobs'[j].status = "stopped"
             /\ NewEvents = <<StoppedEvent(j)>>
             /\ response'.status = 200
             /\ response'.body = <<"success", TRUE>>]_vars

\* A Running job has just been stopped: it is Stopped, its process got one
\* kill() and has not closed, and the request was answered with success.
C5_Witness ==
    \E j \in Jobs :
       /\ events = <<[type |-> "job_started", jobId |-> j,
                      job |-> JobView([activeJobs[j] EXCEPT
                                          !.status = "running"])],
                     StoppedEvent(j)>>
       /\ activeJobs[j].status = "stopped"
       /\ procs[j].kills = 1
       /\ ~procs[j].closed
       /\ response.op = "stop"
       /\ response.status = 200

\* C6: Stop with an id that is not in the table answers 404 and changes no
\* job, no process, not the id counter, and broadcasts nothing.
C6_StopUnknown ==
    [][\A j \in StopIds :
          (PostApiJobsStop(j) /\ j \notin Jobs)
          => /\ response'.status = 404
             /\ UNCHANGED <<activeJobs, jobIdCounter, procs, events>>]_vars

\* A stop request with an unknown id was refused while a job was running.
C6_Witness ==
    /\ response.op = "stop"
    /\ response.status = 404
    /\ \E j \in Jobs : activeJobs[j].status = "running"

----------------------------------------------------------------------------
(* Start requests *)

\* C7: starting the execution loop on an existing workspace without a
\* prd.json answers with the precondition error (400) and adds no job, does
\* not advance the id counter, starts no process and broadcasts nothing.
C7_RalphWithoutPrd ==
    [][\A repo \in RepoArgs :
          (PostApiRalph(repo) /\ NoTaskList(repo))
          => /\ response'.status = 400
             /\ response'.body = <<"error", "No prd.json found">>
             /\ UNCHANGED <<activeJobs, jobIdCounter, procs, events>>]_vars

\* The precondition error was returned with a job already in the table.
C7_Witness ==
    /\ response.op = "ralph"
    /\ response.body = <<"error", "No prd.json found">>
    /\ Jobs # {}

AddsExactly(job) ==
    LET id == response'.body[2]
    IN  /\ response'.body[1] = "jobId"
        /\ id \notin Jobs
        /\ DOMAIN activeJobs' = Jobs \cup {id}
        /\ JobView(activeJobs'[id]) = job
        /\ \A k \in Jobs : activeJobs'[k] = activeJobs[k]

\* C9: an accepted planning start adds exactly one job: kind manager,
\* Running, iterations 0, cost 0.15; an accepted execution-loop start adds
\* exactly one job: kind ralph, Running, iterations 0, cost 0; each returns
\* the new job's id and leaves every other job unchanged.
C9_AcceptedStart ==
    [][\A repo \in RepoArgs :
          /\ \A request \in RequestArgs :
                (PostApiManager(repo, request) /\ response'.status = 200)
                => AddsExactly([repo |-> repo, type |-> "manager",
                                status |-> "running", iterations |-> 0,
                                cost |-> ManagerCost])
          /\ (PostApiRalph(repo) /\ response'.status = 200)
             => AddsExactly([repo |-> repo, type |-> "ralph",
                             status |-> "running", iterations |-> 0,
                             cost |-> 0])]_vars

\* Both kinds of job have been accepted, the second next to the first.
C9_Witness ==
    /\ Cardinality(Jobs) = 2
    /\ \E j, k \in Jobs :
          /\ activeJobs[j].type = "manager"
          /\ activeJobs[k].type = "ralph"
    /\ response.status = 200
    /\ response.body[1] = "jobId"

\* C10: the ids of the accepted start requests, in the order the requests
\* were accepted, are strictly increasing, whatever the kinds of the jobs;
\* every accepted request has its own job in the table; the counter is
\* above every id in use.
C10_JobIdsIncrease ==
    /\ \A i, k \in StartedAt :
          i < k => events[i].jobId < events[k].jobId
    /\ Jobs = {events[i].jobId : i \in StartedAt}
    /\ Cardinality(Jobs) = Cardinality(StartedAt)
    /\ \A j \in Jobs : j < jobIdCounter

\* Two jobs of different kinds have been accepted.
C10_Witness ==
    /\ Cardinality(StartedAt) = 2
    /\ \E i, k \in StartedAt : events[i].job.type # events[k].job.type

----------------------------------------------------------------------------
(* Iterations and cost *)

\* C11: no step lowers the iteration count of a job.
C11_IterationsNeverDecrease ==
    [][\A j \in Jobs :
          activeJobs'[j].iterations >= activeJobs[j].iterations]_vars

\* The job summaries any query or init message would list in this state.
Snapshot == jobSummaries(activeJobs, jobIdCounter)

\* C12: in every state, every execution-loop job of the snapshot has a cost
\* of its iteration count times the per-iteration rate.
C12_CostAgreesWithIterations ==
    \A i \in 1 .. Len(Snapshot) :
       Snapshot[i].type = "ralph"
       => Snapshot[i].cost = Snapshot[i].iterations * IterationCost

\* An execution-loop job whose iteration count has moved past 1.
C12_Witness ==
    \E i \in 1 .. Len(Snapshot) :
       /\ Snapshot[i].type = "ralph"
       /\ Snapshot[i].iterations > 1
       /\ Snapshot[i].cost = Snapshot[i].iterations * IterationCost

----------------------------------------------------------------------------
(* The exit callback *)

CompletedEvent(jobId, status) ==
    IF activeJobs[jobId].type = "ralph"
    THEN [type |-> "job_completed", jobId |-> jobId, status |-> status,
          cost |-> activeJobs[jobId].cost]
    ELSE [type |-> "job_completed", jobId |-> jobId, status |-> status]

\* C20: when the process of a job on which Stop was never called closes,
\* the status becomes completed for exit code 0 and failed for every other
\* disposition, and exactly one job_completed with that status is broadcast.
C20_ExitSetsStatus ==
    [][\A j \in Jobs : \A code \in CloseCodes :
          (/\ ManagerClose(j, code) \/ RalphClose(j, code)
           /\ procs[j].kills = 0)
          => LET status == IF code = <<0>> THEN "completed" ELSE "failed"
             IN  /\ activeJobs'[j].status = status
                 /\ NewEvents = <<CompletedEvent(j, status)>>]_vars

\* A job that was never stopped has failed, another has completed.
C20_Witness ==
    \E j, k \in Jobs :
       /\ procs[j].kills = 0 /\ procs[j].closed
       /\ activeJobs[j].status = "failed"
       /\ procs[k].kills = 0 /\ procs[k].closed
       /\ activeJobs[k].status = "completed"

----------------------------------------------------------------------------
(* The classifier on whole and on split output.  Two execution-loop jobs   *)
(* have been started on "proj".  The process of job 1 delivers an output   *)
(* stream as one chunk; the process of job 2 delivers the same stream as   *)
(* two chunks, cut at any offset.                                          *)

\* What the script prints when the agent's result reports a fatal condition
\* (ralph.sh:239-247).
FatalMarkers == {"Rate limit exceeded", "API key"}

\* Pieces of output: an iteration marker, a digit, other text, a fatal marker.
Segments ==
    {IterationMarker(n) : n \in 1 .. MaxIter}
        \cup {<<"2">>, <<"x">>} \cup {<<f>> : f \in FatalMarkers}

\* The streams of n pieces.
RECURSIVE StreamsOf(_)
StreamsOf(n) ==
    IF n = 0 THEN {<< >>}
    ELSE {s \o g : s \in StreamsOf(n - 1), g \in Segments}

Streams == UNION {StreamsOf(n) : n \in 1 .. MaxSegments}

\* The chunks job j's process has delivered, in order.
LogsOf(j) ==
    LET at == {i \in 1 .. Len(events) :
                  events[i].type = "log" /\ events[i].jobId = j}
        RECURSIVE pick(_)
        pick(n) == IF n = 0 THEN << >>
                   ELSE IF n \in at THEN Append(pick(n - 1), events[n].data)
                   ELSE pick(n - 1)
    IN  pick(Len(events))

\* The job_update messages broadcast for job j, in order.
UpdatesOf(j) ==
    LET at == {i \in 1 .. Len(events) :
                  events[i].type = "job_update" /\ events[i].jobId = j}
        RECURSIVE pick(_)
        pick(n) == IF n = 0 THEN << >>
                   ELSE IF n \in at
                        THEN Append(pick(n - 1),
                                    <<events[n].iterations, events[n].cost>>)
                   ELSE pick(n - 1)
    IN  pick(Len(events))

\* The state after POST /api/ralph {repo: "proj"} was accepted twice.
ClassifierInit ==
    /\ activeJobs = <<RalphJob("proj", 1), RalphJob("proj", 2)>>
    /\ jobIdCounter = 3
    /\ procs = <<spawn, spawn>>
    /\ events = <<[type |-> "job_started", jobId |-> 1,
                   job |-> JobView(RalphJob("proj", 1))],
                  [type |-> "job_started", jobId |-> 2,
                   job |-> JobView(RalphJob("proj", 2))]>>
    /\ observers = << >>
    /\ response = [op |-> "ralph", status |-> 200, body |-> <<"jobId", 2>>]
    /\ node = "up"
    /\ script = NotStarted
    /\ github = Unconfigured
    /\ db = Unopened
    /\ returned = NoCall

\* The process of job 1 writes the stream; it arrives as one chunk.
FeedWhole(stream) ==
    /\ LogsOf(1) = << >>
    /\ onStdoutData(1, stream)

\* The process of job 2 writes the same stream; its first k tokens arrive as
\* a chunk of their own.
FeedHead(k) ==
    /\ Len(LogsOf(1)) = 1
    /\ LogsOf(2) = << >>
    /\ k \in 1 .. (Len(LogsOf(1)[1]) - 1)
    /\ onStdoutData(2, SubSeq(LogsOf(1)[1], 1, k))

\* The rest of the stream arrives as the second chunk.
FeedTail ==
    /\ Len(LogsOf(1)) = 1
    /\ Len(LogsOf(2)) = 1
    /\ LET stream == LogsOf(1)[1]
           k == Len(LogsOf(2)[1])
       IN  onStdoutData(2, SubSeq(stream, k + 1, Len(stream)))

ClassifierNext ==
    \/ \E stream \in Streams : FeedWhole(stream)
    \/ \E k \in 1 .. (3 * MaxSegments) : FeedHead(k)
    \/ FeedTail

SpecClassifier == ClassifierInit /\ [][ClassifierNext]_vars

\* C13: when a stream has been delivered whole to one job and in two chunks
\* to the other, both jobs have had the same job_update messages and have
\* the same iteration count and cost.
C13_SplitYieldsSameEvents ==
    (Len(LogsOf(1)) = 1 /\ Len(LogsOf(2)) = 2)
    => /\ UpdatesOf(2) = UpdatesOf(1)
       /\ activeJobs[2].iterations = activeJobs[1].iterations
       /\ activeJobs[2].cost = activeJobs[1].cost

\* The decimal numeral of n (n < 100).
Decimal(n) ==
    IF n < 10 THEN <<DigitOf(n)>> ELSE <<DigitOf(n \div 10), DigitOf(n % 10)>>

\* "Loop Iteration " followed by a digit starts at position i of text.
MarkerStarts(text, i) ==
    /\ i + 2 <= Len(text)
    /\ SubSeq(text, i, i + 1) = <<"Loop Iter", "ation ">>
    /\ text[i + 2] \in Digit

\* text contains the marker "Loop Iteration n", and no other marker.
OnlyMarkerIs(text, n) ==
    \E i \in 1 .. Len(text) :
       LET end == i + 1 + Len(Decimal(n))
       IN  /\ end <= Len(text)
           /\ SubSeq(text, i, end) = <<"Loop Iter", "ation ">> \o Decimal(n)
           /\ end < Len(text) => text[end + 1] \notin Digit
           /\ \A k \in 1 .. Len(text) : MarkerStarts(text, k) => k = i

C15_FatalMarkerStopsJob ==
    [][\A j \in Jobs :
          (/\ NewEvents # << >>
           /\ NewEvents[1].type = "log"
           /\ NewEvents[1].jobId = j
           /\ activeJobs[j].status = "running"
           /\ \E i \in 1 .. Len(NewEvents[1].data) :
                 NewEvents[1].data[i] \in FatalMarkers)
          => /\ activeJobs'[j].status = "stopped"
             /\ procs'[j].kills > procs[j].kills]_vars

----------------------------------------------------------------------------
(* GET /api/costs *)

BudgetCeiling == 2000000    \* (20 - totalCost) (server.js:569)

\* The three accumulators of activeJobs.forEach, over the jobs 1 .. n.
RECURSIVE totalCost(_, _)
totalCost(map, n) ==
    IF n = 0 THEN 0
    ELSE totalCost(map, n - 1) + (IF n \in DOMAIN map THEN map[n].cost ELSE 0)

RECURSIVE managerCalls(_, _)
managerCalls(map, n) ==
    IF n = 0 THEN 0
    ELSE managerCalls(map, n - 1)
         + (IF n \in DOMAIN map /\ map[n].type = "manager" THEN 1 ELSE 0)

RECURSIVE ralphIterations(_, _)
ralphIterations(map, n) ==
    IF n = 0 THEN 0
    ELSE ralphIterations(map, n - 1)
         + (IF n \in DOMAIN map /\ map[n].type = "ralph"
            THEN map[n].iterations ELSE 0)

\* x.toFixed(d), for x >= 0 and unit = 10^-d: the multiples of unit nearest
\* to x.  Where x is halfway between two of them as a decimal, the double
\* that stands for x lies a little above or below, and that decides the
\* digit: both outcomes occur (0.00255.toFixed(4) is "0.0026",
\* (0.15 + 0.00255).toFixed(4) is "0.1525").
toFixed_floor(x, unit) == {(x \div unit) * unit}
toFixed(x, unit) ==
    LET lo == (x \div unit) * unit
        hi == lo + unit
    IN  IF 2 * (x - lo) < unit THEN {lo}
        ELSE IF 2 * (x - lo) > unit THEN {hi}
        ELSE {lo, hi}

GetApiCosts ==
    /\ LET n == jobIdCounter
           total == totalCost(activeJobs, n)
       IN  /\ \E shown \in toFixed(total, 10) :
              \E remaining \in toFixed(BudgetCeiling - total, 1000) :
                 response' = [op |-> "costs", status |-> 200,
                              body |-> [totalCost |-> shown,
                                        managerCalls |->
                                            managerCalls(activeJobs, n),
                                        ralphIterations |->
                                            ralphIterations(activeJobs, n),
                                        budgetRemaining |-> remaining]]
           /\ UNCHANGED <<activeJobs, jobIdCounter, procs, events>>
    /\ Fanout
    /\ UNCHANGED <<node, script, github, db, returned>>

CostsNext == Next \/ GetApiCosts

SpecCosts == Init /\ [][CostsNext]_vars

\* The sums the summary is about, taken over the table directly.
SumOver(S, f) ==
    LET RECURSIVE sum(_)
        sum(T) == IF T = {} THEN 0
                  ELSE LET j == CHOOSE x \in T : TRUE
                       IN  f[j] + sum(T \ {j})
    IN  sum(S)
CostIn == [j \in Jobs |-> activeJobs[j].cost]
IterationsIn == [j \in Jobs |-> activeJobs[j].iterations]
SumOfCosts == SumOver(Jobs, CostIn)
PlanJobs == {j \in Jobs : activeJobs[j].type = "manager"}
LoopJobs == {j \in Jobs : activeJobs[j].type = "ralph"}

\* C16 as stated: the summary returns exactly the sum of the jobs' costs,
\* the number of plan jobs, the iterations of the loop jobs, and 20 minus
\* the sum.
C16_CostSummaryExact ==
    [][GetApiCosts
       => /\ response'.body.totalCost = SumOfCosts
          /\ response'.body.managerCalls = Cardinality(PlanJobs)
          /\ response'.body.ralphIterations = SumOver(LoopJobs, IterationsIn)
          /\ response'.body.budgetRemaining = BudgetCeiling - SumOfCosts]_vars

\* C16 as amended: the summary returns the sum of the jobs' costs rounded
\* to 4 decimal places and 20 minus the sum rounded to 2 decimal places;
\* the two counts are exact.
C16_CostSummaryRounded ==
    [][GetApiCosts
       => LET body == response'.body
              left == BudgetCeiling - SumOfCosts
          IN  /\ body.totalCost % 10 = 0
              /\ 2 * (body.totalCost - SumOfCosts) \in -10 .. 10
              /\ body.budgetRemaining % 1000 = 0
              /\ 2 * (body.budgetRemaining - left) \in -1000 .. 1000
              /\ body.managerCalls = Cardinality(PlanJobs)
              /\ body.ralphIterations = SumOver(LoopJobs, IterationsIn)]_vars

\* A summary over a plan job and a loop job at iteration 1: the sum
\* 0.15255 is shown as 0.1525, and the 19.84745 left as 19.85.
C16_Witness ==
    /\ response.op = "costs"
    /\ SumOfCosts = ManagerCost + IterationCost
    /\ response.body.managerCalls = 1
    /\ response.body.ralphIterations = 1
    /\ response.body.totalCost = 15250
    /\ response.body.budgetRemaining = 1985000

----------------------------------------------------------------------------
(* Observers: the WebSocket connections *)

\* observers is wss.clients: the sockets the server holds, each with its
\* readyState and the messages send() was called with.

\* wss.on('connection'): the server has added the socket, open, to
\* wss.clients; the handler sends it the init message.
WsConnection(c) ==
    /\ c \notin DOMAIN observers
    /\ observers' = MapSet(observers, c,
                           [readyState |-> OPEN,
                            inbox |-> <<[type |-> "init",
                                         jobs |-> jobSummaries(activeJobs,
                                                               jobIdCounter)]>>])
    /\ UNCHANGED <<activeJobs, jobIdCounter, procs, events, response>>
    /\ UNCHANGED <<node, script, github, db, returned>>

\* A closing handshake has begun on an open socket: it is still in
\* wss.clients, and no longer open.
WsClosing(c) ==
    /\ c \in DOMAIN observers
    /\ observers[c].readyState = OPEN
    /\ observers' = [observers EXCEPT ![c].readyState = CLOSING]
    /\ UNCHANGED <<activeJobs, jobIdCounter, procs, events, response>>
    /\ UNCHANGED <<node, script, github, db, returned>>

\* ws.on('close'): the socket has closed, after a handshake or abruptly,
\* and has left wss.clients.
WsClose(c) ==
    /\ c \in DOMAIN observers
    /\ observers' = [d \in DOMAIN observers \ {c} |-> observers[d]]
    /\ UNCHANGED <<activeJobs, jobIdCounter, procs, events, response>>
    /\ UNCHANGED <<node, script, github, db, returned>>

\* The state after POST /api/manager and then POST /api/ralph were accepted
\* for "proj", with no client connected yet.
ObserversInit ==
    /\ activeJobs = <<ManagerJob("proj", 1), RalphJob("proj", 2)>>
    /\ jobIdCounter = 3
    /\ procs = <<spawn, spawn>>
    /\ events = <<[type |-> "job_started", jobId |-> 1,
                   job |-> JobView(ManagerJob("proj", 1))],
                  [type |-> "job_started", jobId |-> 2,
                   job |-> JobView(RalphJob("proj", 2))]>>
    /\ observers = << >>
    /\ response = [op |-> "ralph", status |-> 200, body |-> <<"jobId", 2>>]
    /\ node = "up"
    /\ script = NotStarted
    /\ github = Unconfigured
    /\ db = Unopened
    /\ returned = NoCall

\* What happens to those jobs: the stop requests and the callbacks of their
\* processes, which broadcast.
Broadcasting ==
    /\ Len(events) <= MaxWatched
    /\ Next
    /\ events' # events
    /\ jobIdCounter' = jobIdCounter

ObserversNext ==
    \/ Broadcasting
    \/ \E c \in 1 .. MaxClients : WsConnection(c)
    \/ \E c \in 1 .. MaxClients : WsClosing(c)
    \/ \E c \in 1 .. MaxClients : WsClose(c)

SpecObservers == ObserversInit /\ [][ObserversNext]_vars

\* ---------------------------------------------------------------------
\* Observers

\* The summary an init message carries for this job, if it carries one.
SummariesOf(message, id) ==
    {i \in 1 .. Len(message.jobs) : message.jobs[i].id = id}

\* The message lists the registry as it is in the given job table: one
\* summary per job, with the job's status, iteration count and cost.
ListsRegistry(message, table) ==
    /\ message.type = "init"
    /\ Len(message.jobs) = Cardinality(DOMAIN table)
    /\ \A id \in DOMAIN table :
          \E i \in SummariesOf(message, id) :
             /\ message.jobs[i].status = table[id].status
             /\ message.jobs[i].iterations = table[id].iterations
             /\ message.jobs[i].cost = table[id].cost

Attaches(c) == c \notin DOMAIN observers /\ c \in DOMAIN observers'

\* C17: the first message of every observer is an init snapshot and no live
\* event precedes it; at the moment an observer attaches, that snapshot is
\* the only message it has, and it lists every job of the registry, running
\* jobs included, with the job's current status, iteration count and cost.
C17_InitSnapshotFirst ==
    /\ [](\A c \in DOMAIN observers :
             /\ observers[c].inbox # << >>
             /\ observers[c].inbox[1].type = "init"
             /\ \A i \in 2 .. Len(observers[c].inbox) :
                   observers[c].inbox[i].type # "init")
    /\ [][\A c \in 1 .. MaxClients :
             Attaches(c)
                => /\ Len(observers'[c].inbox) = 1
                   /\ ListsRegistry(observers'[c].inbox[1], activeJobs)]_vars

\* An observer attached after job 1 had been stopped, while job 2 was
\* running: its snapshot lists both, and the output of job 2 followed it.
C17_Witness ==
    \E c \in DOMAIN observers :
       LET inbox == observers[c].inbox
       IN  /\ Len(inbox) = 3
           /\ Len(inbox[1].jobs) = 2
           /\ inbox[1].jobs[1].status = "stopped"
           /\ inbox[1].jobs[1].cost = ManagerCost
           /\ inbox[1].jobs[2].status = "running"
           /\ inbox[1].jobs[2].iterations = 0
           /\ inbox[2].type = "log"
           /\ inbox[3].type = "job_update"

\* The messages of an inbox after the init snapshot.
LiveEvents(c) == Tail(observers[c].inbox)

\* s is a run of consecutive messages of t that starts after position k.
RunAt(s, t, k) ==
    /\ k + Len(s) <= Len(t)
    /\ s = SubSeq(t, k + 1, k + Len(s))

\* The messages of s that are about job j, in the order of s.
RECURSIVE AboutJob(_, _)
AboutJob(s, j) ==
    IF s = << >> THEN << >>
    ELSE IF s[1].jobId = j
         THEN <<s[1]>> \o AboutJob(Tail(s), j)
         ELSE AboutJob(Tail(s), j)

\* C18: while an observer is attached and open, every step delivers to it
\* exactly the events the step produced, in the order produced; so what an
\* open observer has received after its snapshot is the whole tail of the
\* event log since it attached, and for each job the events of that job are
\* in the order in which they were produced.
C18_EveryEventInOrder ==
    /\ [][\A c \in DOMAIN observers :
             (observers[c].readyState = OPEN /\ c \in DOMAIN observers')
                => observers'[c].inbox = observers[c].inbox \o NewEvents]_vars
    /\ [](\A c \in DOMAIN observers :
             observers[c].readyState = OPEN
                => LET k == Len(events) - Len(LiveEvents(c))
                   IN  /\ k >= 0
                       /\ RunAt(LiveEvents(c), events, k)
                       /\ \A j \in Jobs :
                             AboutJob(LiveEvents(c), j)
                                = AboutJob(SubSeq(events, k + 1, Len(events)), j))

\* An open observer that attached after the two jobs had started has
\* received a message about job 1 and then the log message and the
\* job_update of one output chunk of job 2, in that order.
C18_Witness ==
    \E c \in DOMAIN observers :
       /\ observers[c].readyState = OPEN
       /\ Len(LiveEvents(c)) = 3
       /\ LiveEvents(c)[1].jobId = 1
       /\ LiveEvents(c)[2].type = "log" /\ LiveEvents(c)[2].jobId = 2
       /\ LiveEvents(c)[3].type = "job_update" /\ LiveEvents(c)[3].jobId = 2
       /\ LiveEvents(c) = SubSeq(events, 3, 5)

\* Some attached client is not open.
SomeNotOpen == \E d \in DOMAIN observers : observers[d].readyState # OPEN

\* The job table after the step holds what the step's messages announce.
RegistryUpdated ==
    \A i \in 1 .. Len(NewEvents) :
       LET m == NewEvents[i]
       IN  /\ m.type = "job_completed"
              => /\ activeJobs'[m.jobId].status = m.status
                 /\ "cost" \in DOMAIN m
                       => activeJobs'[m.jobId].cost = m.cost
           /\ m.type = "job_update"
              => /\ activeJobs'[m.jobId].iterations = m.iterations
                 /\ activeJobs'[m.jobId].cost = m.cost

\* C19: when a handler broadcasts while some attached client is not open,
\* every open client still receives the messages of the step, the client
\* that is not open receives nothing, and the handler has made its update
\* of the job table.
C19_NotReadyNeverBlocks ==
    [][(SomeNotOpen /\ NewEvents # << >>)
          => /\ \A c \in DOMAIN observers :
                   /\ c \in DOMAIN observers'
                   /\ observers'[c].inbox
                         = IF observers[c].readyState = OPEN
                           THEN observers[c].inbox \o NewEvents
                           ELSE observers[c].inbox
             /\ RegistryUpdated]_vars

\* Two clients attached while both jobs were running; one of them began to
\* close, then job 1 was stopped: the open client was told, the closing one
\* was not, and the job table says stopped.
C19_Witness ==
    \E c, d \in DOMAIN observers :
       /\ observers[c].readyState = CLOSING
       /\ observers[d].readyState = OPEN
       /\ Len(observers[c].inbox) = 1
       /\ \A i \in 1 .. 2 : observers[c].inbox[1].jobs[i].status = "running"
       /\ observers[d].inbox = observers[c].inbox \o <<StoppedEvent(1)>>
       /\ activeJobs[1].status = "stopped"

\* ---------------------------------------------------------------------
\* A child process that cannot be launched

\* spawn() returns a handle even when the process cannot be launched (no
\* bash, no free process slot): the start handler stores it and answers as
\* usual, and on the next tick the handle emits 'error'.  Neither start
\* handler registers an 'error' listener, so Node throws the event as an
\* uncaught exception and the server process exits.  The 'close' callback
\* is never called.
ChildError(jobId) ==
    /\ node = "up"
    /\ jobId \in DOMAIN procs
    /\ jobId + 1 = jobIdCounter
    /\ procs[jobId] = spawn
    /\ events # << >>
    /\ events[Len(events)] = [type |-> "job_started", jobId |-> jobId,
                              job |-> JobView(activeJobs[jobId])]
    /\ response.body = <<"jobId", jobId>>
    /\ node' = "exited"
    /\ procs' = [procs EXCEPT ![jobId].closed = TRUE]
    /\ UNCHANGED <<activeJobs, jobIdCounter, events, observers, response,
                   script, github, db, returned>>

\* A running server handles requests and callbacks.
Serving == node = "up" /\ Next

LaunchNext ==
    \/ Serving
    \/ \E jobId \in 1 .. MaxJobs : ChildError(jobId)

SpecLaunch == Init /\ [][LaunchNext]_vars

\* C21: when the child process of an accepted start request cannot be
\* launched, the job's status becomes failed.
C21_LaunchFailureFails ==
    [][\A jobId \in 1 .. MaxJobs :
          ChildError(jobId) => activeJobs'[jobId].status = "failed"]_vars

\* ---------------------------------------------------------------------
\* GET /api/jobs

\* Array.from(activeJobs.entries()).map(...); res.json(jobs)
GetApiJobs_running ==
    /\ LET listed == [id \in {j \in DOMAIN activeJobs :
                                 activeJobs[j].status = "running"}
                         |-> activeJobs[id]]
       IN  response' = [op |-> "jobs", status |-> 200,
                        body |-> jobSummaries(listed, jobIdCounter)]
    /\ UNCHANGED <<activeJobs, jobIdCounter, procs, events>>
    /\ Fanout
    /\ UNCHANGED <<node, script, github, db, returned>>
GetApiJobs ==
    /\ response' = [op |-> "jobs", status |-> 200,
                    body |-> jobSummaries(activeJobs, jobIdCounter)]
    /\ UNCHANGED <<activeJobs, jobIdCounter, procs, events>>
    /\ Fanout
    /\ UNCHANGED <<node, script, github, db, returned>>

QueriesNext == Next \/ GetApiJobs

SpecQueries == Init /\ [][QueriesNext]_vars

\* The ids of the jobs accepted so far: every accepted start request took
\* the next id and announced the job.
Accepted == {events[i].jobId : i \in StartedAt}

\* C22: a job that is in the registry is in it in every later state, and
\* GET /api/jobs lists every job accepted since the server started.
C22_RegistryAppendOnly ==
    /\ [][\A jobId \in Jobs : jobId \in DOMAIN activeJobs']_vars
    /\ [](Accepted = Jobs /\ Jobs = 1 .. (jobIdCounter - 1))
    /\ [][GetApiJobs
            => \A jobId \in Accepted :
                  \E i \in 1 .. Len(response'.body) :
                     response'.body[i].id = jobId]_vars

\* Both accepted jobs are listed after the first one has been stopped and
\* has exited, while the second one is running.
C22_Witness ==
    /\ response.op = "jobs"
    /\ Len(response.body) = 2
    /\ response.body[1].id = 1 /\ response.body[1].status = "failed"
    /\ response.body[2].id = 2 /\ response.body[2].status = "running"
    /\ procs[1].kills > 0

\* ---------------------------------------------------------------------
\* Life cycle of a job

\* The job holds the handle of a child process.
HoldsHandle(jobId) == activeJobs[jobId].process \in DOMAIN procs

\* C23: in every state where a job's status is completed, failed or
\* stopped, the job holds no process handle.
C23_HandleReleased ==
    \A jobId \in Jobs :
       activeJobs[jobId].status \in Terminal => ~HoldsHandle(jobId)

\* C26: a job whose status is completed, failed or stopped is not running
\* after any step.
C26_TerminalNeverRunning ==
    [][\A jobId \in Jobs :
          activeJobs[jobId].status \in Terminal
             => activeJobs'[jobId].status # "running"]_vars

\* The positions in the event log of the job_completed messages of a job.
CompletedAt(jobId) ==
    {i \in 1 .. Len(events) :
        events[i].type = "job_completed" /\ events[i].jobId = jobId}

\* A job that was stopped, and whose process then exited with code 0: its
\* status changed once more, to completed, and not back to running.
C26_Witness ==
    \E jobId \in Jobs :
       /\ activeJobs[jobId].status = "completed"
       /\ procs[jobId].kills > 0
       /\ Cardinality(CompletedAt(jobId)) = 2

\* C27: a stdout chunk of an execution-loop job in which no iteration
\* marker starts produces the log message of the chunk and nothing else:
\* no job_update, no job_completed, the job table is unchanged and the
\* server keeps running.
C27_PlainChunkOnlyLogs ==
    [][\A jobId \in Jobs :
          (/\ NewEvents # << >>
           /\ NewEvents[1].type = "log"
           /\ NewEvents[1].jobId = jobId
           /\ \A i \in 1 .. Len(NewEvents[1].data) :
                 ~MarkerStarts(NewEvents[1].data, i))
          => /\ Len(NewEvents) = 1
             /\ activeJobs' = activeJobs
             /\ procs' = procs
             /\ node' = "up"]_vars

\* Job 2 has received the first half of a marker as a chunk of its own: it
\* was logged, and the job is as it was when it started.
C27_Witness ==
    /\ LogsOf(2) = <<<<"Loop Iter">>>>
    /\ UpdatesOf(2) = << >>
    /\ activeJobs[2] = RalphJob("proj", 2)
    /\ events[Len(events)].type = "log"

\* C28: in the event log every message about a job comes after the
\* job_started message of that job, and a stdout chunk with a marker hands
\* its log message to broadcast() before the job_update it derives.
C28_StartedFirstLogBeforeUpdate ==
    /\ [](\A i \in 1 .. Len(events) :
             events[i].type # "job_started"
                => \E k \in 1 .. (i - 1) :
                      /\ events[k].type = "job_started"
                      /\ events[k].jobId = events[i].jobId)
    /\ [][\A i \in 1 .. Len(NewEvents) :
             NewEvents[i].type = "job_update"
                => /\ i = 2
                   /\ NewEvents[1].type = "log"
                   /\ NewEvents[1].jobId = NewEvents[2].jobId
                   /\ iterMatch(NewEvents[1].data) # << >>]_vars

\* Job 1 was announced, then job 2; job 2 then delivered a chunk with a
\* marker: its log message and the job_update follow both announcements.
C28_Witness ==
    /\ Len(events) = 4
    /\ events[1].type = "job_started" /\ events[1].jobId = 1
    /\ events[2].type = "job_started" /\ events[2].jobId = 2
    /\ events[3].type = "log" /\ events[3].jobId = 2
    /\ events[4].type = "job_update" /\ events[4].jobId = 2

\* C29: at most one job_completed message is broadcast for a job.
C29_OneCompletedPerJob ==
    \A jobId \in Jobs : Cardinality(CompletedAt(jobId)) <= 1

\* C30: the status of the latest job_completed message of a job is the
\* job's status in the registry, and no job_completed message was
\* broadcast for a job that is running.
C30_LatestCompletedIsStatus ==
    \A jobId \in Jobs :
       /\ CompletedAt(jobId) # {}
             => LET last == CHOOSE i \in CompletedAt(jobId) :
                               \A k \in CompletedAt(jobId) : k <= i
                IN  events[last].status = activeJobs[jobId].status
       /\ activeJobs[jobId].status = "running" => CompletedAt(jobId) = {}

\* A job whose process exited with code 0 and which was stopped afterwards:
\* the latest of its two job_completed messages says stopped, and so does
\* the registry.
C30_Witness ==
    \E jobId \in Jobs :
       /\ Cardinality(CompletedAt(jobId)) = 2
       /\ procs[jobId].closed
       /\ \E i, k \in CompletedAt(jobId) :
             /\ i < k
             /\ events[i].status = "completed"
             /\ events[k].status = "stopped"
       /\ activeJobs[jobId].status = "stopped"

\* ---------------------------------------------------------------------
\* scripts/ralph.sh, the execution loop, run by bash under `set -e`.
\*
\* Words of the shell are strings; a decimal number is the string of its
\* digits.  The record `script` holds the shell variables of the run under
\* their own names, the user stories of prd.json (priority and passes, in
\* the order of the file; a story's id is its position), the lines of
\* interest the run has printed, and its exit status (-1 while it runs).

\* The decimal words the model uses, and their values.
Numerals == {"0", "1", "2", "3", "4", "5", "6", "7", "8", "9", "10", "11"}
ValueOf(w) ==
    CASE w = "10" -> 10 [] w = "11" -> 11 [] OTHER -> DigitVal(w)
NumeralOf(n) ==
    CASE n = 10 -> "10" [] n = 11 -> "11" [] OTHER -> DigitOf(n)

\* What the host provides.  "arith-errexit": the shell applies `set -e` to
\* a (( )) command, as bash does since version 4.1 (the Debian image of the
\* Dockerfile); bash 3.2, the bash of the Mac the README names as a host,
\* does not.
Facts == {"prd.json", "jq git", "claude", "amp", "arith-errexit"}

\* The command lines: none (how the README runs it), a number, a tool and a
\* number, and the repository path (how server.js:504 runs it).
CommandLines ==
    {<< >>, <<"/repos/proj">>}
        \cup {<<NumeralOf(n)>> : n \in 0 .. MaxArg}
        \cup {<<"--tool", "amp", NumeralOf(n)>> : n \in 1 .. MaxArg}

\* The prd.json files: up to MaxStories stories.
Stories == [priority : 1 .. MaxPriority, passes : BOOLEAN]
PrdFiles == UNION {[1 .. n -> Stories] : n \in 0 .. MaxStories}

\* What an agent's output can contain that the script greps for.
Promises == {"<promise>DONE</promise>", "Rate limit exceeded", "API key"}

\* The pattern [0-9]* of the case statement: a word that starts with a
\* digit.  Of the words of the model, those are the numerals.
StartsWithDigit(w) == w \in Numerals

\* Lines 13-30.  MAX_ITERATIONS="${1:-10}", then the for loop over the
\* words of the command line: --tool shifts the positional parameters,
\* takes $1 as the tool and shifts again; a word that starts with a digit
\* becomes MAX_ITERATIONS.  shift with no parameter left fails.
RECURSIVE parseArgs(_, _)
parseArgs(words, st) ==
    IF words = << >> \/ st.failed THEN st
    ELSE LET arg == Head(words)
         IN  IF arg = "--tool"
             THEN IF st.pos = << >>
                  THEN [st EXCEPT !.failed = TRUE]
                  ELSE LET shifted == Tail(st.pos)
                       IN  IF shifted = << >>
                           THEN [st EXCEPT !.TOOL = "", !.failed = TRUE]
                           ELSE parseArgs(Tail(words),
                                          [st EXCEPT !.TOOL = Head(shifted),
                                                     !.pos = Tail(shifted)])
             ELSE IF StartsWithDigit(arg)
             THEN parseArgs(Tail(words), [st EXCEPT !.MAX_ITERATIONS = arg])
             ELSE parseArgs(Tail(words), st)

\* bash scripts/ralph.sh args..., up to line 30
Bash(args, prd, env) ==
    /\ script.pc = "idle"
    /\ LET first == IF args = << >> THEN NumeralOf(DefaultMaxIterations)
                    ELSE args[1]
           st == parseArgs(args, [pos |-> args, TOOL |-> "claude",
                                  MAX_ITERATIONS |-> first,
                                  failed |-> FALSE])
       IN  script' = [script EXCEPT
                        !.args = args,
                        !.MAX_ITERATIONS = st.MAX_ITERATIONS,
                        !.TOOL = st.TOOL,
                        !.userStories = prd,
                        !.env = env,
                        !.pc = IF st.failed THEN "exited" ELSE "files",
                        !.status = IF st.failed THEN 1 ELSE -1]
    /\ UNCHANGED <<activeJobs, jobIdCounter, procs, events, observers,
                   response, node, github, db, returned>>

\* The lines of interest the script prints.
IterationLine(n, max) == [text |-> "Iteration", n |-> n, max |-> max]
Line(text) == [text |-> text, n |-> 0, max |-> ""]

\* exit n
Exit(sh, n) == [sh EXCEPT !.pc = "exited", !.status = n]

\* Lines 60-126: no prd.json, exit 1; jq or git missing, exit 1;
\* ITERATION=0.
Setup ==
    /\ script.pc = "files"
    /\ script' = IF "prd.json" \notin script.env \/ "jq git" \notin script.env
                 THEN Exit(script, 1)
                 ELSE [script EXCEPT !.ITERATION = 0, !.pc = "while"]
    /\ UNCHANGED <<activeJobs, jobIdCounter, procs, events, observers,
                   response, node, github, db, returned>>

\* [ $ITERATION -lt $MAX_ITERATIONS ]: a word that is not an integer makes
\* the test fail with a message, which in a loop condition counts as false.
lt_le(n, word) == word \in Numerals /\ n <= ValueOf(word)
lt(n, word) == word \in Numerals /\ n < ValueOf(word)

\* Line 127, and lines 253-257 when the test is false.
While ==
    /\ script.pc = "while"
    /\ script' = IF lt(script.ITERATION, script.MAX_ITERATIONS)
                 THEN [script EXCEPT !.pc = "do"]
                 ELSE Exit([script EXCEPT !.stdout =
                               Append(@, Line("Max iterations reached"))], 1)
    /\ UNCHANGED <<activeJobs, jobIdCounter, procs, events, observers,
                   response, node, github, db, returned>>

\* jq '[.userStories[] | select(.passes == false)]': the positions of the
\* stories that are not passing, in the order of the file.
RECURSIVE incomplete(_, _)
incomplete(stories, n) ==
    IF n = 0 THEN << >>
    ELSE IF stories[n].passes = FALSE
         THEN Append(incomplete(stories, n - 1), n)
         ELSE incomplete(stories, n - 1)

\* sort_by(.priority): a stable sort, by insertion.
RECURSIVE insert(_, _, _)
insert(stories, sorted, k) ==
    IF sorted = << >> THEN <<k>>
    ELSE IF stories[sorted[Len(sorted)]].priority <= stories[k].priority
         THEN Append(sorted, k)
         ELSE Append(insert(stories, SubSeq(sorted, 1, Len(sorted) - 1), k),
                     sorted[Len(sorted)])

RECURSIVE sort_by_priority(_, _)
sort_by_priority(stories, ks) ==
    IF ks = << >> THEN << >>
    ELSE insert(stories,
                sort_by_priority(stories, SubSeq(ks, 1, Len(ks) - 1)),
                ks[Len(ks)])

\* [.userStories[] | select(.passes == false)] | sort_by(.priority) | first
select_unsorted(stories) == Head(incomplete(stories, Len(stories)))
select(stories) ==
    Head(sort_by_priority(stories, incomplete(stories, Len(stories))))

\* Lines 128-157.  ((ITERATION++)) has the old value of ITERATION as its
\* result, and a (( )) command whose result is 0 has exit status 1: where
\* `set -e` applies to it, the shell exits there in the first iteration.
\* Otherwise the script prints the iteration line, counts the incomplete
\* stories, and either prints the completion marker and exits (git add,
\* not guarded by `|| true`, can fail first) or selects the next story.
Do ==
    /\ script.pc = "do"
    /\ LET counted == [script EXCEPT !.ITERATION = @ + 1]
           begun == [counted EXCEPT !.stdout =
                        Append(@, IterationLine(counted.ITERATION,
                                                counted.MAX_ITERATIONS))]
           stories == script.userStories
           INCOMPLETE_COUNT == Len(incomplete(stories, Len(stories)))
       IN  IF "arith-errexit" \in script.env /\ script.ITERATION = 0
           THEN script' = Exit(counted, 1)
           ELSE IF INCOMPLETE_COUNT = 0
           THEN \E git \in {0, 128} :
                   script' = Exit([begun EXCEPT !.stdout =
                                      Append(@, Line("<promise>COMPLETE</promise>"))],
                                  git)
           ELSE script' = [begun EXCEPT !.CURRENT_STORY = select(stories),
                                        !.pc = "tool"]
    /\ UNCHANGED <<activeJobs, jobIdCounter, procs, events, observers,
                   response, node, github, db, returned>>

\* What an agent can leave of prd.json: the file as it was, or with the
\* passes flag of one story rewritten.
Edits(stories) ==
    {stories} \cup {[stories EXCEPT ![i].passes = b] :
                       i \in DOMAIN stories, b \in BOOLEAN}

\* Lines 196-223.  claude: the agent runs (its exit status is ignored), or,
\* without the CLI, the simulation marks the story passing from the second
\* iteration on.  amp: the agent runs, or the script exits 1 without the
\* CLI.  Any other tool: nothing runs, RESULT keeps its value.
Tool ==
    /\ script.pc = "tool"
    /\ LET ran == script.TOOL \in script.env
           sh == [script EXCEPT !.pc = "checks"]
       IN  IF script.TOOL \in {"claude", "amp"} /\ ran
           THEN \E result \in SUBSET Promises :
                \E prd \in Edits(script.userStories) :
                   script' = [sh EXCEPT !.RESULT = result,
                                        !.userStories = prd]
           ELSE IF script.TOOL = "claude"
           THEN script' = IF script.ITERATION >= 2
                          THEN [sh EXCEPT
                                  !.userStories[script.CURRENT_STORY].passes
                                      = TRUE,
                                  !.RESULT = {"<promise>DONE</promise>"}]
                          ELSE [sh EXCEPT !.RESULT = {}]
           ELSE IF script.TOOL = "amp"
           THEN script' = Exit(script, 1)
           ELSE script' = sh
    /\ UNCHANGED <<activeJobs, jobIdCounter, procs, events, observers,
                   response, node, github, db, returned>>

\* A safety check that only reports the credential failure and goes on.
Checks_resume ==
    /\ script.pc = "checks"
    /\ \/ /\ "<promise>DONE</promise>" \in script.RESULT
          /\ script' = Exit(script, 128)
       \/ script' = IF "Rate limit exceeded" \in script.RESULT
                    THEN Exit(script, 1)
                    ELSE [script EXCEPT !.pc = "while"]
    /\ UNCHANGED <<activeJobs, jobIdCounter, procs, events, observers,
                   response, node, github, db, returned>>

\* Lines 226-250: commit after DONE (git add can fail), exit 1 on a fatal
\* marker, else sleep and loop.
Checks ==
    /\ script.pc = "checks"
    /\ \/ /\ "<promise>DONE</promise>" \in script.RESULT
          /\ script' = Exit(script, 128)
       \/ script' = IF "Rate limit exceeded" \in script.RESULT
                    THEN Exit(script, 1)
                    ELSE IF "API key" \in script.RESULT
                    THEN Exit(script, 1)
                    ELSE [script EXCEPT !.pc = "while"]
    /\ UNCHANGED <<activeJobs, jobIdCounter, procs, events, observers,
                   response, node, github, db, returned>>

\* Someone runs the script, on some host, in some project.
Run ==
    /\ script.pc = "idle"
    /\ \E args \in CommandLines, env \in SUBSET Facts :
          \E prd \in IF "prd.json" \in env THEN PrdFiles ELSE {<< >>} :
             Bash(args, prd, env)

ScriptNext ==
    \/ Run
    \/ Setup
    \/ While
    \/ Do
    \/ Tool
    \/ Checks

SpecScript == Init /\ [][ScriptNext]_vars

\* The number of iterations the command line allows.
Limit ==
    IF script.MAX_ITERATIONS \in Numerals
    THEN ValueOf(script.MAX_ITERATIONS) ELSE 0

\* Some story of prd.json has passes == false.
SomeIncomplete ==
    \E i \in DOMAIN script.userStories : script.userStories[i].passes = FALSE

LastLines(n) ==
    SubSeq(script.stdout, Len(script.stdout) - n + 1, Len(script.stdout))

\* How far a run is from its exit at most, in steps: four steps for every
\* iteration the limit still allows, and the steps left in the current one.
Remaining ==
    CASE script.pc = "idle" -> 4 * ValueOf("11") + 6
      [] script.pc = "files" -> 4 * ValueOf("11") + 5
      [] script.pc = "while" -> 4 * (Limit - script.ITERATION) + 1
      [] script.pc = "do" -> 4 * (Limit - script.ITERATION)
      [] script.pc = "tool" -> 4 * (Limit - script.ITERATION) + 3
      [] script.pc = "checks" -> 4 * (Limit - script.ITERATION) + 2
      [] script.pc = "exited" -> 0

\* C24: a run of the script exits: the shell always has a next step until
\* the script has exited, and every step leaves fewer steps to its exit;
\* the run never begins more iterations than MAX_ITERATIONS, which is 10
\* when the command line is empty; when its exit status is 0, the last
\* thing it did was to begin an iteration, find no story with
\* passes == false and print the completion marker; and whenever it has
\* exited while a story is incomplete, at the iteration limit or before,
\* its exit status is not 0.
C24_LoopTerminates ==
    /\ [](script.pc # "exited" => ENABLED ScriptNext)
    /\ [][Remaining' < Remaining /\ Remaining' >= 0]_script
    /\ [](script.pc \notin {"idle", "files"}
             => /\ script.ITERATION <= Limit
                /\ script.args = << >>
                      => script.MAX_ITERATIONS = NumeralOf(DefaultMaxIterations)
                /\ script.status = 0
                      => /\ script.pc = "exited"
                         /\ ~SomeIncomplete
                         /\ Len(script.stdout) >= 2
                         /\ LastLines(2)
                               = <<IterationLine(script.ITERATION,
                                                 script.MAX_ITERATIONS),
                                   Line("<promise>COMPLETE</promise>")>>
                /\ (script.pc = "exited" /\ SomeIncomplete)
                      => script.status # 0)

\* A run with the default limit, on a shell that lets ((ITERATION++)) pass,
\* which worked on two stories and found both passing when it began its
\* third iteration: it printed the completion marker and exited 0.
C24_Witness ==
    /\ script.pc = "exited"
    /\ script.status = 0
    /\ script.args = << >>
    /\ script.ITERATION = 3
    /\ Len(script.userStories) = 2
    /\ LastLines(1) = <<Line("<promise>COMPLETE</promise>")>>

\* C25: when an iteration of the script selects the story to work on, that
\* story has passes == false and no story with passes == false has a
\* smaller priority number.
C25_SelectsHighestPriorityIncomplete ==
    [][(Do /\ script'.pc = "tool")
          => LET stories == script.userStories
                 k == script'.CURRENT_STORY
             IN  /\ k \in DOMAIN stories
                 /\ stories[k].passes = FALSE
                 /\ \A i \in DOMAIN stories :
                       stories[i].passes = FALSE
                          => stories[k].priority <= stories[i].priority]_vars

\* The second story of the file is selected: the first one, of priority 1,
\* passes already, and the second, of priority 2, does not.  In the
\* iteration before, the first story was selected ahead of it.
C25_Witness ==
    /\ script.pc = "tool"
    /\ script.ITERATION = 2
    /\ script.userStories = <<[priority |-> 1, passes |-> TRUE],
                              [priority |-> 2, passes |-> FALSE]>>
    /\ script.CURRENT_STORY = 2
    /\ script.RESULT = {"<promise>DONE</promise>"}

\* ---------------------------------------------------------------------
\* Frame of the job handlers

\* C31: a step changes at most the job its messages are about: whenever
\* the record of a job changes, every message of the step carries that
\* job's id, so Stop, an output chunk or an exit callback of one job leaves
\* the status, iteration count and cost of every other job as they were;
\* and a plan job has iterations 0 and the fixed plan cost in every state,
\* whatever its process prints.
C31_MutationConfinedToOneJob ==
    /\ [][\A k \in Jobs :
             activeJobs'[k] # activeJobs[k]
                => /\ NewEvents # << >>
                   /\ \A i \in 1 .. Len(NewEvents) : NewEvents[i].jobId = k]_vars
    /\ [](\A k \in Jobs :
             activeJobs[k].type = "manager"
                => /\ activeJobs[k].iterations = 0
                   /\ activeJobs[k].cost = ManagerCost)

\* The process of plan job 1 printed "Loop Iteration 2" and the job was
\* left alone; loop job 2 then reached iteration 1 and job 1 was still
\* left alone.
C31_Witness ==
    /\ Len(events) = 5
    /\ events[3] = [type |-> "log", jobId |-> 1, data |-> IterationMarker(2)]
    /\ events[5].type = "job_update" /\ events[5].jobId = 2
    /\ activeJobs[1] = ManagerJob("proj", 1)
    /\ activeJobs[2].iterations = 1

\* ---------------------------------------------------------------------
\* The loop job and its script: the process of a loop job is a run of
\* scripts/ralph.sh, and what the script prints arrives at the job's
\* stdout handler.

\* A printed line as output text.  log "Iteration $ITERATION /
\* $MAX_ITERATIONS" prints "[Ralph] Iteration 1 / 10": the text up to and
\* including "Iter" is other text, "ation " is the second half of the
\* server's literal, the numbers are digits.  The literal "Loop " is in no
\* line the script prints itself.
Render(line) ==
    IF line.text = "Iteration"
    THEN <<"x", "ation ">> \o Decimal(line.n) \o <<"x">>
            \o (IF line.max \in Numerals THEN Decimal(ValueOf(line.max))
                ELSE <<"x">>)
    ELSE <<"x">>

\* The lines of the script that have reached the job's stdout handler.
Piped(jobId) == Len(LogsOf(jobId))

\* proc.stdout.on('data') with the next line the script printed
Pipe(jobId) ==
    /\ ProcOpen(jobId)
    /\ activeJobs[jobId].type = "ralph"
    /\ Piped(jobId) < Len(script.stdout)
    /\ onStdoutData(jobId, Render(script.stdout[Piped(jobId) + 1]))

\* proc.on('close') when the script has exited and its output was read
ScriptClose(jobId) ==
    /\ script.pc = "exited"
    /\ Piped(jobId) = Len(script.stdout)
    /\ RalphClose(jobId, <<script.status>>)

\* The state after POST /api/ralph {repo: "proj"} was accepted: the script
\* is about to run as the process of job 1.
PipelineInit ==
    /\ activeJobs = <<RalphJob("proj", 1)>>
    /\ jobIdCounter = 2
    /\ procs = <<spawn>>
    /\ events = <<[type |-> "job_started", jobId |-> 1,
                   job |-> JobView(RalphJob("proj", 1))]>>
    /\ observers = << >>
    /\ response = [op |-> "ralph", status |-> 200, body |-> <<"jobId", 1>>]
    /\ node = "up"
    /\ script = NotStarted
    /\ github = Unconfigured
    /\ db = Unopened
    /\ returned = NoCall

PipelineNext ==
    \/ ScriptNext
    \/ Pipe(1)
    \/ ScriptClose(1)

SpecPipeline == PipelineInit /\ [][PipelineNext]_vars

C33_FatalMarkerExits ==
    /\ [][(script.pc = "checks" /\ script.RESULT \cap FatalMarkers # {})
             => /\ script'.pc = "exited"
                /\ script'.status > 0
                /\ script'.ITERATION = script.ITERATION
                /\ script'.stdout = script.stdout]_script
    /\ [][script.pc # "exited"]_script

\* The agent answered the first of two allowed iterations with a credential
\* failure only: the script exited 1 with a story still incomplete.
C33_Witness ==
    /\ script.pc = "exited"
    /\ script.status = 1
    /\ script.RESULT = {"API key"}
    /\ script.ITERATION = 1
    /\ Limit = 2
    /\ SomeIncomplete

\* ---------------------------------------------------------------------
\* Concurrent jobs on one workspace.

\* The running jobs of a workspace.
RunningOn(jobs, repo) ==
    {k \in DOMAIN jobs : jobs[k].repo = repo /\ jobs[k].status = "running"}

\* A well-formed start request for a workspace that exists is served.
StartsOn(repo) ==
    \/ /\ existsSync(repoPath(repo)) /\ existsSync(prdPath(repo))
       /\ PostApiRalph(repo)
    \/ /\ existsSync(repoPath(repo))
       /\ PostApiManager(repo, "add a feature")

\* C34: a start request for a workspace that already has a running job is
\* accepted like any other: it is answered 200 with a new job id, the new
\* job is running on that workspace, and the jobs that were running on it
\* still are.
C34_SecondJobAccepted ==
    [][\A repo \in Repos :
          (RunningOn(activeJobs, repo) # {} /\ StartsOn(repo))
          => /\ response'.status = 200
             /\ response'.body = <<"jobId", jobIdCounter>>
             /\ jobIdCounter \notin Jobs
             /\ RunningOn(activeJobs', repo)
                   = RunningOn(activeJobs, repo) \cup {jobIdCounter}]_vars

\* Two execution loops are running on the workspace "proj".
C34_Witness ==
    /\ RunningOn(activeJobs, "proj") = {1, 2}
    /\ activeJobs[1].type = "ralph"
    /\ activeJobs[2].type = "ralph"
    /\ ProcOpen(1) /\ ProcOpen(2)
    /\ response = [op |-> "ralph", status |-> 200, body |-> <<"jobId", 2>>]

\* ---------------------------------------------------------------------
\* Git credentials: the GitHub App settings, the installation token cache
\* and the choice of a credential.
\*
\* `github` holds githubAppConfig, installationTokenCache,
\* process.env.GITHUB_TOKEN, the paths at which a private key that signs
\* is stored, the time, the number of tokens GitHub has issued, and the
\* callers that wait for the answer to a token request.

MaxClock == 2       \* ticks of the clock
MaxTokens == 2      \* installation tokens GitHub issues
MaxRequests == 1    \* token requests in flight

serverVars ==
    <<activeJobs, jobIdCounter, procs, events, observers, node, script>>

\* The truth value JavaScript gives a string or null.
Truthy(v) == v # Null /\ v # ""

\* The n-th token GitHub issues: every request gets a new one.
AppToken(n) ==
    CASE n = 1 -> "ghs_1" [] n = 2 -> "ghs_2" [] n = 3 -> "ghs_3"
      [] OTHER -> "ghs_4"

\* GITHUB_APP_PRIVATE_KEY_PATH of the environment, and the path POST
\* /api/settings/github writes (server.js:853).
EnvKeyPath == "/etc/ralph/key.pem"
AppKeyPath == "github-app-private-key.pem"

\* A privateKey of the request body that is not a string (a JSON object):
\* fs.writeFileSync throws on it.
NotAString == "{}"

\* generateGitHubAppJWT (server.js:29-64): null without an app id or a key
\* path, when no file is at the path, or when signing with it throws.
generateGitHubAppJWT(g) ==
    IF ~Truthy(g.config.appId) \/ ~Truthy(g.config.privateKeyPath)
    THEN Null
    ELSE IF g.config.privateKeyPath \notin g.keys THEN Null
    ELSE "jwt"

\* server.js:69-73: the cache has a token and an expiry, and now is before
\* the expiry.
cached(g) ==
    /\ Truthy(g.cache.token)
    /\ g.cache.expiresAt # NoExpiry
    /\ g.now < g.cache.expiresAt

\* getInstallationToken up to the request (server.js:67-81): the cached
\* token, null, or "request" when it goes on to ask GitHub.
getInstallationToken(g) ==
    IF cached(g) THEN g.cache.token
    ELSE IF ~Truthy(g.config.installationId) THEN Null
    ELSE IF generateGitHubAppJWT(g) = Null THEN Null
    ELSE "request"

\* configureGitAuth after the await (server.js:128-146); token is what
\* getInstallationToken gave, or null when it was not called.
configureGitAuth_env(userOAuthToken, token, GITHUB_TOKEN) ==
    IF Truthy(GITHUB_TOKEN) THEN [token |-> GITHUB_TOKEN, method |-> "pat"]
    ELSE IF Truthy(userOAuthToken)
    THEN [token |-> userOAuthToken, method |-> "oauth"]
    ELSE IF Truthy(token) THEN [token |-> token, method |-> "app"]
    ELSE [token |-> Null, method |-> "none"]
configureGitAuth(userOAuthToken, token, GITHUB_TOKEN) ==
    IF Truthy(userOAuthToken)
    THEN [token |-> userOAuthToken, method |-> "oauth"]
    ELSE IF Truthy(token) THEN [token |-> token, method |-> "app"]
    ELSE IF Truthy(GITHUB_TOKEN)
    THEN [token |-> GITHUB_TOKEN, method |-> "pat"]
    ELSE [token |-> Null, method |-> "none"]

\* What a caller of getInstallationToken does with the token.
Resolved(caller, token, GITHUB_TOKEN) ==
    IF caller = "configureGitAuth"
    THEN [fn |-> "configureGitAuth", userOAuthToken |-> Null,
          installationToken |-> token,
          value |-> configureGitAuth(Null, token, GITHUB_TOKEN)]
    ELSE [fn |-> "getInstallationToken", value |-> token]

\* The answer of POST /api/settings/github/test (server.js:872-878); the
\* callers of configureGitAuth answer their own requests.
Answer(caller, token, GITHUB_TOKEN) ==
    IF caller = "test"
    THEN response' =
            [op |-> "settings/github/test", status |-> 200,
             body |-> IF Truthy(token)
                      THEN <<"success", "true",
                             "GitHub App authentication successful">>
                      ELSE IF Truthy(GITHUB_TOKEN)
                      THEN <<"success", "true", "Using Personal Access Token">>
                      ELSE <<"success", "false",
                             "No authentication configured">>]
    ELSE UNCHANGED response

\* A caller of getInstallationToken: it gets the answer at once, or a
\* request to GitHub is in flight and it waits.
Await(caller) ==
    LET token == getInstallationToken(github)
    IN  IF token = "request"
        THEN /\ Len(github.requests) < MaxRequests
             /\ github' = [github EXCEPT !.requests = Append(@, caller)]
             /\ UNCHANGED <<returned, response>>
        ELSE /\ returned' = Resolved(caller, token, github.GITHUB_TOKEN)
             /\ Answer(caller, token, github.GITHUB_TOKEN)
             /\ UNCHANGED github

\* configureGitAuth(repoPath, userOAuthToken), as the clone and the push
\* handler call it (server.js:386, 731).
ConfigureGitAuth(userOAuthToken) ==
    /\ IF Truthy(userOAuthToken)
       THEN /\ returned' = [fn |-> "configureGitAuth",
                            userOAuthToken |-> userOAuthToken,
                            installationToken |-> Null,
                            value |-> configureGitAuth(userOAuthToken, Null,
                                                       github.GITHUB_TOKEN)]
            /\ UNCHANGED <<github, response>>
       ELSE Await("configureGitAuth")
    /\ UNCHANGED <<serverVars, db>>

\* POST /api/settings/github/test (server.js:869-882).
PostApiSettingsGithubTest ==
    /\ Await("test")
    /\ UNCHANGED <<serverVars, db>>

\* res.on('end') and req.on('error') of a request (server.js:99-120), in
\* any order of the requests in flight: GitHub answered with a new token
\* and its expiry, which are cached, or the request failed and the caller
\* gets null.
TokenResponse(i) ==
    /\ i \in DOMAIN github.requests
    /\ LET caller == github.requests[i]
           rest == [github EXCEPT !.requests =
                       SubSeq(@, 1, i - 1) \o SubSeq(@, i + 1, Len(@))]
       IN  \/ /\ github.issued < MaxTokens
              /\ \E expires_at \in 1 .. MaxClock :
                    github' = [rest EXCEPT
                                 !.issued = @ + 1,
                                 !.cache = [token |-> AppToken(github.issued + 1),
                                            expiresAt |-> expires_at]]
              /\ returned' = Resolved(caller, AppToken(github.issued + 1),
                                      github.GITHUB_TOKEN)
              /\ Answer(caller, AppToken(github.issued + 1),
                        github.GITHUB_TOKEN)
           \/ /\ github' = rest
              /\ returned' = Resolved(caller, Null, github.GITHUB_TOKEN)
              /\ Answer(caller, Null, github.GITHUB_TOKEN)
    /\ UNCHANGED <<serverVars, db>>

\* POST /api/settings/github (server.js:840-866).  A privateKey that is
\* not a string makes writeFileSync throw, and a write can fail on the
\* disk: the handler answers 500 after it has changed the config and
\* before it clears the cache.
PostApiSettingsGithub(appId, installationId, privateKey) ==
    /\ LET ids == [github EXCEPT
                     !.config.appId = IF appId # Null THEN appId ELSE @,
                     !.config.installationId =
                         IF installationId # Null THEN installationId ELSE @]
       IN  IF Truthy(privateKey)
           THEN \/ /\ privateKey # NotAString
                   /\ github' = [ids EXCEPT
                                   !.keys = @ \cup {AppKeyPath},
                                   !.config.privateKeyPath = AppKeyPath,
                                   !.cache = EmptyCache]
                   /\ response' = [op |-> "settings/github", status |-> 200,
                                   body |-> <<"success", "true">>]
                \/ /\ github' = ids
                   /\ response' = [op |-> "settings/github", status |-> 500,
                                   body |-> <<"error",
                                              "Failed to save private key">>]
           ELSE /\ github' = [ids EXCEPT !.cache = EmptyCache]
                /\ response' = [op |-> "settings/github", status |-> 200,
                                body |-> <<"success", "true">>]
    /\ UNCHANGED <<serverVars, db, returned>>

\* Time passes.
Tick ==
    /\ github.now < MaxClock
    /\ github' = [github EXCEPT !.now = @ + 1]
    /\ UNCHANGED <<serverVars, response, db, returned>>

\* A server started with some GitHub settings in its environment.
GitHubInit ==
    /\ activeJobs = << >>
    /\ jobIdCounter = 1
    /\ procs = << >>
    /\ events = << >>
    /\ observers = << >>
    /\ response = [op |-> "none", status |-> 0, body |-> << >>]
    /\ node = "up"
    /\ script = NotStarted
    /\ db = Unopened
    /\ returned = NoCall
    /\ \E appId \in {"", "1"}, installationId \in {"", "7"},
          privateKeyPath \in {"", EnvKeyPath}, GITHUB_TOKEN \in {Null, "ghp_e"} :
          github = [Unconfigured EXCEPT
                      !.config = [appId |-> appId,
                                  privateKeyPath |-> privateKeyPath,
                                  installationId |-> installationId],
                      !.keys = {privateKeyPath} \ {""},
                      !.GITHUB_TOKEN = GITHUB_TOKEN]

GitHubNext ==
    \/ \E userOAuthToken \in {Null, "gho_u"} : ConfigureGitAuth(userOAuthToken)
    \/ PostApiSettingsGithubTest
    \/ \E i \in 1 .. MaxRequests : TokenResponse(i)
    \/ \E appId \in {Null, "1"}, installationId \in {Null, "8"},
          privateKey \in {Null, "pem", NotAString} :
          PostApiSettingsGithub(appId, installationId, privateKey)
    \/ Tick

SpecGitHub == GitHubInit /\ [][GitHubNext]_vars

\* A step in which a call returned the installation token out of the
\* cache: a caller got its answer and nothing of `github` changed.
FromCache ==
    /\ github' = github
    /\ returned' # returned
    /\ \/ returned'.fn = "getInstallationToken" /\ Truthy(returned'.value)
       \/ /\ returned'.fn = "configureGitAuth"
          /\ Truthy(returned'.installationToken)

TokenOf(r) ==
    IF r.fn = "configureGitAuth" THEN r.installationToken ELSE r.value

\* C35: configureGitAuth gives the user's OAuth token when there is one;
\* without one, the installation token when getInstallationToken obtained
\* one, and it does whenever the cache holds an unexpired token; without
\* either, GITHUB_TOKEN of the environment; and otherwise no credential.
C35_CredentialPriority ==
    /\ [](returned.fn = "configureGitAuth"
            => LET user == returned.userOAuthToken
                   app == returned.installationToken
                   pat == github.GITHUB_TOKEN
                   auth == returned.value
               IN  /\ Truthy(user)
                      => auth = [token |-> user, method |-> "oauth"]
                   /\ (~Truthy(user) /\ Truthy(app))
                      => auth = [token |-> app, method |-> "app"]
                   /\ (~Truthy(user) /\ ~Truthy(app) /\ Truthy(pat))
                      => auth = [token |-> pat, method |-> "pat"]
                   /\ (~Truthy(user) /\ ~Truthy(app) /\ ~Truthy(pat))
                      => auth = [token |-> Null, method |-> "none"])
    /\ [][(ConfigureGitAuth(Null) /\ cached(github))
             => returned'.value = [token |-> github.cache.token,
                                   method |-> "app"]]_vars

\* Without a signed-in user, with GITHUB_TOKEN set and a token in the
\* cache, the installation token was chosen.
C35_Witness ==
    /\ returned.fn = "configureGitAuth"
    /\ returned.userOAuthToken = Null
    /\ github.GITHUB_TOKEN = "ghp_e"
    /\ cached(github)
    /\ github.requests = << >>
    /\ returned.value = [token |-> github.cache.token, method |-> "app"]

\* C36: getInstallationToken returns the cached token only while the time
\* is before the cached expiry, a step that changes the GitHub App
\* settings leaves the cache empty, and the token in the cache only changes
\* to one GitHub has just issued.
C36_CacheClearedOnUpdate ==
    /\ [][FromCache => /\ TokenOf(returned') = github.cache.token
                       /\ github.now < github.cache.expiresAt]_vars
    /\ [][github'.config # github.config
             => github'.cache = EmptyCache]_vars
    /\ [][github'.cache.token # github.cache.token
             => \/ github'.cache = EmptyCache
                \/ /\ github'.issued = github.issued + 1
                   /\ github'.cache.token = AppToken(github'.issued)]_vars

\* ---------------------------------------------------------------------
\* The job/repo store (better-sqlite3).
\*
\* `db` holds the handle of `let db` (null before init) and the tables of
\* the database file: the rows of jobs, the largest id AUTOINCREMENT has
\* handed out (sqlite_sequence), and the rows of repos.  The created_at
\* columns, which no function of the store writes or reads by name, are
\* left out.

MaxRows == 2        \* rows of the jobs table

otherVars ==
    <<activeJobs, jobIdCounter, procs, events, observers, response, node,
      script, github>>

\* A call that threw, and a call that returned.
Throw(fn, message) == [fn |-> fn, error |-> message]
Return(fn, value) == [fn |-> fn, value |-> value]

\* if (!db) throw new Error('Database not initialized')
initialized_always(d) == TRUE
initialized(d) == d.db # Null

\* Date.now()
Times == {7}

\* The columns of jobs that createJob fills, and the names SQLite takes as
\* the INTEGER PRIMARY KEY besides `id`.
JobColumns ==
    {"id", "repo", "type", "status", "iterations", "startTime", "cost"}
RowidAliases == {"rowid", "oid", "_rowid_"}
Column(k) == IF k \in RowidAliases THEN "id" ELSE k

\* The jobs createJob is called with: the required fields, and the
\* optional ones given or not.
JobArgs ==
    {[repo |-> "proj", type |-> "manager", status |-> "running"],
     [repo |-> "proj", type |-> "ralph", status |-> "running",
      iterations |-> 1, startTime |-> 1, cost |-> IterationCost]}

\* The ids a caller can name.
RowIds == 1 .. (MaxRows + 1)

\* The updates updateJob is called with: none, an id only, fields of the
\* job with and without an id, a property of the server's job object that
\* is no column, and the rowid.
UpdateArgs ==
    {<< >>, [id |-> 1], [process |-> 1],
     [id |-> 1, status |-> "failed", iterations |-> 2]}
        \cup {[rowid |-> v] : v \in RowIds}

\* The names of the model in the order of ORDER BY name, and the repos
\* addRepo is called with: without a url, and one name a second time with
\* another path and a url.
RepoNames == <<"bare", "proj">>
RepoRows ==
    {[name |-> "bare", path |-> "/repos/bare"],
     [name |-> "proj", path |-> "/repos/proj"],
     [name |-> "proj", path |-> "/tmp/repos/proj",
      url |-> "https://github.com/o/proj"]}

\* a || b for a number that may be missing; 0 is falsy.
or(obj, k, default) ==
    IF k \in DOMAIN obj /\ obj[k] # 0 THEN obj[k] ELSE default

\* a || null for a string that may be missing; "" is falsy.
orNull(obj, k) ==
    IF k \in DOMAIN obj /\ Truthy(obj[k]) THEN obj[k] ELSE Null

\* The largest id of a set of rows, 0 for none.
MaxId(rows) ==
    IF rows = {} THEN 0
    ELSE (CHOOSE r \in rows : \A q \in rows : q.id <= r.id).id

\* init() (part_001:7-53): opens the file and creates the tables that are
\* not there; opening can throw, and db keeps its value.
init ==
    /\ \/ /\ db' = [db EXCEPT !.db = "open"]
          /\ returned' = Return("init", Null)
       \/ /\ UNCHANGED db
          /\ returned' = Throw("init", "unable to open database file")
    /\ UNCHANGED otherVars

\* createJob(job) (part_001:55-70).  AUTOINCREMENT: the new id is one more
\* than the largest id the table has and has ever handed out.
createJob(job) ==
    /\ IF ~initialized(db)
       THEN /\ returned' = Throw("createJob", "Database not initialized")
            /\ UNCHANGED db
       ELSE /\ Cardinality(db.jobs) < MaxRows
            /\ \E now \in Times :
                  LET lastInsertRowid ==
                          (IF db.seq > MaxId(db.jobs) THEN db.seq
                           ELSE MaxId(db.jobs)) + 1
                      row == [id |-> lastInsertRowid,
                              repo |-> job.repo,
                              type |-> job.type,
                              status |-> job.status,
                              iterations |-> or(job, "iterations", 0),
                              startTime |-> or(job, "startTime", now),
                              cost |-> or(job, "cost", 0)]
                  IN  /\ db' = [db EXCEPT !.jobs = @ \cup {row},
                                          !.seq = lastInsertRowid]
                      /\ returned' =
                            Return("createJob",
                                   [k \in DOMAIN job \cup {"id"} |->
                                      IF k = "id" THEN lastInsertRowid
                                      ELSE job[k]])
    /\ UNCHANGED otherVars

\* The row after UPDATE jobs SET k = @k, ... for the keys.
Set(row, updates, keys) ==
    [f \in DOMAIN row |->
        IF \E k \in keys : Column(k) = f
        THEN updates[CHOOSE k \in keys : Column(k) = f]
        ELSE row[f]]

\* updateJob(id, updates) (part_001:72-80).  A key that names no column
\* makes prepare() throw; an id that another row has makes run() throw.
updateJob(id, updates) ==
    /\ LET keys == DOMAIN updates \ {"id"}
           hit == {r \in db.jobs : r.id = id}
           set == {Set(r, updates, keys) : r \in hit}
       IN  IF ~initialized(db)
           THEN /\ returned' = Throw("updateJob", "Database not initialized")
                /\ UNCHANGED db
           ELSE IF keys = {}
           THEN /\ returned' = Return("updateJob", Null)
                /\ UNCHANGED db
           ELSE IF \E k \in keys : Column(k) \notin JobColumns
           THEN /\ returned' = Throw("updateJob", "no such column")
                /\ UNCHANGED db
           ELSE IF \E r \in set, q \in db.jobs \ hit : r.id = q.id
           THEN /\ returned' = Throw("updateJob",
                                     "UNIQUE constraint failed: jobs.id")
                /\ UNCHANGED db
           ELSE /\ returned' = Return("updateJob", Null)
                /\ db' = [db EXCEPT !.jobs = (@ \ hit) \cup set]
    /\ UNCHANGED otherVars

\* stmt.get(): the first row of the result, or undefined (no row).
get(rows) == IF rows = {} THEN {} ELSE {CHOOSE r \in rows : TRUE}

\* getJob(id) (part_001:82-86)
getJob(id) ==
    /\ returned' = IF ~initialized(db)
                   THEN Throw("getJob", "Database not initialized")
                   ELSE Return("getJob", get({r \in db.jobs : r.id = id}))
    /\ UNCHANGED <<db, otherVars>>

\* ORDER BY id DESC
RECURSIVE desc(_)
desc(rows) ==
    IF rows = {} THEN << >>
    ELSE LET top == CHOOSE r \in rows : \A q \in rows : q.id <= r.id
         IN  <<top>> \o desc(rows \ {top})

\* getJobs() (part_001:88-92)
getJobs ==
    /\ returned' = IF ~initialized(db)
                   THEN Throw("getJobs", "Database not initialized")
                   ELSE Return("getJobs", desc(db.jobs))
    /\ UNCHANGED <<db, otherVars>>

\* INSERT INTO repos without OR REPLACE, on a table without the key.
addRepo_insert(repo) ==
    /\ IF ~initialized(db)
       THEN /\ returned' = Throw("addRepo", "Database not initialized")
            /\ UNCHANGED db
       ELSE /\ db' = [db EXCEPT !.repos =
                         @ \cup {[name |-> repo.name, path |-> repo.path,
                                  url |-> orNull(repo, "url")]}]
            /\ returned' = Return("addRepo", Null)
    /\ UNCHANGED otherVars

\* addRepo(repo) (part_001:94-105).  INSERT OR REPLACE deletes the row
\* that has the name, then inserts.
addRepo(repo) ==
    /\ IF ~initialized(db)
       THEN /\ returned' = Throw("addRepo", "Database not initialized")
            /\ UNCHANGED db
       ELSE /\ db' = [db EXCEPT !.repos =
                         {r \in @ : r.name # repo.name}
                            \cup {[name |-> repo.name, path |-> repo.path,
                                   url |-> orNull(repo, "url")]}]
            /\ returned' = Return("addRepo", Null)
    /\ UNCHANGED otherVars

\* getRepo(name) (part_001:107-111)
getRepo(name) ==
    /\ returned' = IF ~initialized(db)
                   THEN Throw("getRepo", "Database not initialized")
                   ELSE Return("getRepo",
                               get({r \in db.repos : r.name = name}))
    /\ UNCHANGED <<db, otherVars>>

\* ORDER BY name ASC, for the names of the model.
RECURSIVE asc(_, _)
asc(rows, i) ==
    IF i > Len(RepoNames) THEN << >>
    ELSE LET named == {r \in rows : r.name = RepoNames[i]}
         IN  (IF named = {} THEN << >>
              ELSE <<CHOOSE r \in named : TRUE>>) \o asc(rows, i + 1)

\* getRepos() (part_001:113-117)
getRepos ==
    /\ returned' = IF ~initialized(db)
                   THEN Throw("getRepos", "Database not initialized")
                   ELSE Return("getRepos", asc(db.repos, 1))
    /\ UNCHANGED <<db, otherVars>>

\* deleteRepo(name) (part_001:119-123)
deleteRepo(name) ==
    /\ IF ~initialized(db)
       THEN /\ returned' = Throw("deleteRepo", "Database not initialized")
            /\ UNCHANGED db
       ELSE /\ db' = [db EXCEPT !.repos = {r \in @ : r.name # name}]
            /\ returned' = Return("deleteRepo", Null)
    /\ UNCHANGED otherVars

StoreNext ==
    \/ init
    \/ \E job \in JobArgs : createJob(job)
    \/ \E id \in RowIds, updates \in UpdateArgs : updateJob(id, updates)
    \/ \E id \in RowIds : getJob(id)
    \/ getJobs
    \/ \E repo \in RepoRows : addRepo(repo)
    \/ \E i \in DOMAIN RepoNames : getRepo(RepoNames[i])
    \/ getRepos
    \/ \E i \in DOMAIN RepoNames : deleteRepo(RepoNames[i])

SpecStore == Init /\ [][StoreNext]_vars

\* ---------------------------------------------------------------------
\* Properties of the store.

StoreOps ==
    {"createJob", "updateJob", "getJob", "getJobs",
     "addRepo", "getRepo", "getRepos", "deleteRepo"}

JobIds(rows) == {r.id : r \in rows}
Named(rows, name) == {r \in rows : r.name = name}

\* The call that just returned was one of fn, and it did not throw.
Returns(fn) == returned'.fn = fn /\ "value" \in DOMAIN returned'

\* C37: before init, every operation of the store throws 'Database not
\* initialized', and no step changes the tables.
C37_NothingBeforeInit ==
    [][db.db = Null
          => /\ returned'.fn \in StoreOps
                => /\ "error" \in DOMAIN returned'
                   /\ returned'.error = "Database not initialized"
             /\ db'.jobs = db.jobs
             /\ db'.seq = db.seq
             /\ db'.repos = db.repos]_vars

\* updateJob was called before init: it threw, and the tables are empty.
C37_Witness ==
    /\ db = Unopened
    /\ returned = Throw("updateJob", "Database not initialized")

\* C38: createJob gives the job an identifier larger than those of all
\* jobs, under which the table then has the values given to createJob,
\* iterations and cost being 0 when not given; and a job of the table keeps
\* its identifier, and its other values until an updateJob changes them.
C38_FreshIdAndRoundTrip ==
    /\ [][(Returns("createJob") /\ db' # db)
             => LET job == returned'.value
                    row == get({r \in db'.jobs : r.id = job.id})
                IN  /\ job.id > MaxId(db.jobs)
                    /\ job.id \notin JobIds(db.jobs)
                    /\ db'.jobs \ db.jobs = row
                    /\ \A r \in row :
                          /\ r.repo = job.repo
                          /\ r.type = job.type
                          /\ r.status = job.status
                          /\ r.iterations = IF "iterations" \in DOMAIN job
                                            THEN job.iterations ELSE 0
                          /\ r.cost = IF "cost" \in DOMAIN job
                                      THEN job.cost ELSE 0
                          /\ "startTime" \in DOMAIN job
                                => r.startTime = job.startTime]_vars
    /\ [][\A r \in db.jobs :
             \E q \in db'.jobs :
                /\ q.id = r.id
                /\ q # r => returned'.fn = "updateJob"]_vars

\* C39: updateJob(id, updates) leaves every job its identifier, leaves the
\* jobs with another identifier as they are, changes no field of the job
\* that updates does not name, and changes nothing when updates names
\* nothing but id.
C39_UpdateChangesNamedFieldsOnly ==
    [][\A id \in RowIds, updates \in UpdateArgs :
          (returned'.fn = "updateJob" /\ updateJob(id, updates))
          => /\ JobIds(db'.jobs) = JobIds(db.jobs)
             /\ \A r \in db.jobs : r.id # id => r \in db'.jobs
             /\ \A r \in db.jobs, q \in db'.jobs :
                   (r.id = id /\ q.id = id)
                   => \A f \in JobColumns \ DOMAIN updates : q[f] = r[f]
             /\ DOMAIN updates \subseteq {"id"} => db' = db]_vars

\* The row addRepo stores for a repo.
RepoRow(repo) ==
    [name |-> repo.name, path |-> repo.path,
     url |-> IF "url" \in DOMAIN repo THEN repo.url ELSE Null]

\* C40: no two rows of repos have the same name; addRepo leaves exactly
\* the row it was given under the name and the other names as they were;
\* the rows of a name change in no step but an addRepo or a deleteRepo;
\* getRepo returns the row of the name; and deleteRepo leaves no row of
\* the name.
C40_RepoNamesUnique ==
    /\ [](\A r, q \in db.repos : r.name = q.name => r = q)
    /\ [][\A repo \in RepoRows :
             (Returns("addRepo") /\ addRepo(repo))
             => /\ Named(db'.repos, repo.name) = {RepoRow(repo)}
                /\ \A r \in db.repos : r.name # repo.name => r \in db'.repos
                /\ Cardinality(db'.repos)
                      = Cardinality({r \in db.repos : r.name # repo.name}) + 1
       ]_vars
    /\ [][\A i \in DOMAIN RepoNames :
             LET name == RepoNames[i]
             IN  /\ Named(db'.repos, name) # Named(db.repos, name)
                       => returned'.fn \in {"addRepo", "deleteRepo"}
                 /\ (Returns("getRepo") /\ getRepo(name))
                       => returned'.value = Named(db.repos, name)
                 /\ (Returns("deleteRepo") /\ deleteRepo(name))
                       => Named(db'.repos, name) = {}]_vars

\* "proj" was added, added again with another path and a url, and looked
\* up: the one row of the name has the later values; "bare" is stored too.
C40_Witness ==
    /\ returned = Return("getRepo",
                         {[name |-> "proj", path |-> "/tmp/repos/proj",
                           url |-> "https://github.com/o/proj"]})
    /\ Named(db.repos, "proj") = returned.value
    /\ Cardinality(db.repos) = 2

====
